---- MODULE Spec2Model ----
(***************************************************************************)
(* The bounded-distance block engine of astar-pairwise-aligner (A*PA2):    *)
(* the range controller (j_range, fixed_j_range), one bounded attempt      *)
(* (align_for_bounded_dist) stepped block by block, and the exponential    *)
(* search driver around it.  The block store, the seed heuristic and the   *)
(* unit cost model are collaborators whose code is outside src/; they are  *)
(* modelled on integer DP columns and on a chained seed heuristic.         *)
(* Beside the engine: the profile builders of pa-bitpacking (profile.rs),  *)
(* the bit-parallel column kernel (benches/nw/simd.rs) on words of reduced *)
(* width, and the batch runner of astarpa-v2 (bin/proof.rs).               *)
(***************************************************************************)
EXTENDS Integers, Sequences, FiniteSets, TLC

VARIABLES
    a, b,               \* the input sequences (AstarPa2Instance.a / .b)
    domain,             \* "Full" | "GapStart" | "GapGap" | "Astar"
    sparse_h,           \* params.sparse_h
    prune,              \* params.prune
    block_width,        \* params.block_width
    trace,              \* whether a CIGAR is requested
    k,                  \* seed length of the heuristic
    r,                  \* largest cost of a seed match (0: exact, 1: inexact)
    driver,             \* "exponential_search" | "bounded_call" | "unbounded_call"
    s,                  \* the driver's current bound (f_max of the running attempt)
    pc,                 \* "start" | "col" | "finish" | "returned" | "done"
    i,                  \* start column of the next block of the running attempt
    all_blocks_reused,  \* local of align_for_bounded_dist
    blocks,             \* the block store: sequence of blocks (index 1 = column 0)
    last,               \* index of the last block of the running attempt (0: none)
    matches,            \* seed matches present in the contours
    pending,            \* matches pruned by prune_block, not yet flushed
    contours,           \* chain-score table of the heuristic (built from matches)
    ret,                \* value returned by the last finished attempt
    tried,              \* the bounds tried so far, in order
    rejected,           \* the results the driver did not accept, in order
    \* Profile::build (profile.rs)
    profile,            \* "Scatter" | "Bit"
    text_a, text_b,     \* the arguments a and b of build, as characters
    pa,                 \* the encoded a
    pb,                 \* the packed profile of b, one entry per word
    row,                \* the loop index j of build
    build_pc,           \* "encode_a" | "pack_b" | "pad_tail" | "built" | "panic"
    \* compute_block_simd, one lane (simd.rs)
    pv, mv,             \* vertical differences of a word: plus and minus bits
    ph0, mh0,           \* horizontal difference carried into / out of the word
    eq,                 \* the equality mask of the word
    kernel_pc,          \* "load" | "compute"
    \* main of the batch runner (proof.rs)
    timeout,            \* args.timeout: None or <<d>>
    elapsed,            \* start.elapsed()
    pairs,              \* pairs of the input not yet read
    started,            \* pairs handed to the closure so far
    sample_size,        \* avg_result.sample_size
    runner_pc,          \* "read" | "align" | "record" | "check" | "summary" | "exit"
    \* mutations (util.rs)
    mut_k,              \* the argument k
    kmer,               \* the argument kmer
    mut_config,         \* the argument config
    mut_dedup,          \* the argument dedup
    mut_result,         \* the Mutations returned
    mut_pc              \* "call" | "done"

engine_vars == <<a, b, domain, sparse_h, prune, block_width, trace, k, r, driver, s, pc,
                 i, all_blocks_reused, blocks, last, matches, pending, contours, ret,
                 tried, rejected>>
profile_vars == <<profile, text_a, text_b, pa, pb, row, build_pc>>
kernel_vars == <<pv, mv, ph0, mh0, eq, kernel_pc>>
runner_vars == <<timeout, elapsed, pairs, started, sample_size, runner_pc>>
mutation_vars == <<mut_k, kmer, mut_config, mut_dedup, mut_result, mut_pc>>

vars == <<engine_vars, profile_vars, kernel_vars, runner_vars, mutation_vars>>

\* what a step of the engine leaves alone
beside_engine == <<profile_vars, kernel_vars, runner_vars, mutation_vars>>

config == <<a, b, domain, sparse_h, prune, block_width, trace, k, r, driver>>

----------------------------------------------------------------------------
(* Bounds of the model *)

\* longest input sequence
MaxLen == 3
\* longest input of the runs checked for termination
MaxLenFair == 2
\* the alphabet of the inputs (two of the four bases)
Alphabet == 1..2
\* largest block width
MaxBlockWidth == 2
\* largest seed length
MaxK == 2
\* largest cost of a seed match
MaxR == 1
\* length of the long text
LongLen == 12
\* largest number of edits between the long inputs
MaxEdits == 2
\* the wide block of the long inputs
LongBlockWidth == 4
\* largest seed length on the long inputs
LongK == 3
\* where the long inputs are edited
EditPositions == {2, 6, 7, 11}
\* attempts after which the model stops doubling
MaxAttempts == 6
\* largest bound of a direct call of align_for_bounded_dist
MaxBound == 3
\* most calls of one caller on the same block store
MaxCalls == 2
\* rows per word of the block store (the engine packs 64 rows per word)
WordRows == 2

----------------------------------------------------------------------------
(* Arithmetic helpers *)

Min(x, y) == IF x <= y THEN x ELSE y
Max(x, y) == IF x >= y THEN x ELSE y
Abs(x) == IF x >= 0 THEN x ELSE -x

\* i32::div_ceil for a positive divisor
div_ceil(x, d) == IF x >= 0 THEN (x + d - 1) \div d ELSE -((-x) \div d)
\* i32 division, which truncates towards zero
trunc_div(x, d) == IF x >= 0 THEN x \div d ELSE -((-x) \div d)

----------------------------------------------------------------------------
(* Ranges: JRange(lo, hi) with both ends inclusive, None as the empty tuple *)

None == <<>>
JRange(lo, hi) == <<lo, hi>>
is_empty(x) == x[1] > x[2]
union(x, o) == <<Min(x[1], o[1]), Max(x[2], o[2])>>
intersection(x, o) == <<Max(x[1], o[1]), Min(x[2], o[2])>>
contains_range(x, o) == is_empty(o) \/ (x[1] <= o[1] /\ o[2] <= x[2])
first_col == <<-1, 0>>

----------------------------------------------------------------------------
(* Unit cost model *)

min_ins_extend == 1
min_del_extend == 1
max_del_for_cost(f) == f \div min_del_extend
max_ins_for_cost(f) == f \div min_ins_extend
\* cost of the gap between the diagonals of u and v
gap_cost(u, v) ==
    LET d == (v[1] - u[1]) - (v[2] - u[2])
    IN  IF d >= 0 THEN d * min_del_extend ELSE (-d) * min_ins_extend
extend_cost(u, v) == gap_cost(u, v)
target(sa, sb) == <<Len(sa), Len(sb)>>

----------------------------------------------------------------------------
(* The quadratic Needleman-Wunsch reference (unit costs), row by row        *)

RECURSIVE nw_row(_, _, _, _, _)
nw_row(sa, sb, j, above, acc) ==
    LET n == Len(acc)
    IN  IF n > Len(sa) THEN acc
        ELSE nw_row(sa, sb, j, above,
                    Append(acc, Min(above[n] + (IF sa[n] = sb[j] THEN 0 ELSE 1),
                                    Min(above[n + 1] + 1, acc[n] + 1))))

RECURSIVE nw_rows(_, _, _, _)
nw_rows(sa, sb, j, above) ==
    IF j > Len(sb) THEN above
    ELSE nw_rows(sa, sb, j + 1, nw_row(sa, sb, j, above, <<above[1] + 1>>))

nw_cost(sa, sb) == nw_rows(sa, sb, 1, [n \in 1 .. Len(sa) + 1 |-> n - 1])[Len(sa) + 1]

----------------------------------------------------------------------------
(* The seed heuristic: chained seed matches of cost at most r.              *)
(* Seed number sd (from 0) covers a[sd*k+1 .. sd*k+k].  A match             *)
(* <<sd, j, j2, c>> aligns the seed with b[j+1 .. j2] at cost c: it starts  *)
(* at position (sd*k, j) and ends at (sd*k+k, j2).                          *)

num_seeds(sa, kk) == Len(sa) \div kk

seed(sa, kk, sd) == SubSeq(sa, sd * kk + 1, sd * kk + kk)

\* cost of aligning seed sd with b[j+1 .. j2]
match_cost(sa, sb, kk, sd, j, j2) == nw_cost(seed(sa, kk, sd), SubSeq(sb, j + 1, j2))

find_matches(sa, sb, kk, rr) ==
    { <<x[1], x[2], x[3], match_cost(sa, sb, kk, x[1], x[2], x[3])>> :
        x \in { y \in (0 .. num_seeds(sa, kk) - 1) \X (0 .. Len(sb)) \X (0 .. Len(sb)) :
                  /\ y[2] <= y[3]
                  /\ y[3] - y[2] >= kk - rr /\ y[3] - y[2] <= kk + rr
                  /\ match_cost(sa, sb, kk, y[1], y[2], y[3]) <= rr } }

\* start position of a match
match_start(m, kk) == <<m[1] * kk, m[2]>>

\* the largest element of a non-empty set of numbers
max_of(S) == CHOOSE x \in S : \A y \in S : y <= x

\* One row of the chain-score table: row[j+1] is the best score of a chain
\* of matches of the seeds sd.. that starts at row >= j; a match of cost c
\* scores r+1-c.  `below` is the finished row of seed sd+1; rows are built
\* from j = nb down.
RECURSIVE contour_row(_, _, _, _, _, _)
contour_row(M, sd, rr, nb, below, acc) ==
    LET j == nb - Len(acc)
    IN  IF j < 0 THEN acc
        ELSE LET skip == below[j + 1]
                 down == IF j < nb THEN acc[1] ELSE 0
                 take == max_of({0} \cup { (rr + 1 - m[4]) + below[m[3] + 1] :
                                           m \in { x \in M : x[1] = sd /\ x[2] = j } })
             IN  contour_row(M, sd, rr, nb, below,
                             <<Max(skip, Max(down, take))>> \o acc)

\* The table for seeds sd .. n (row n is all zero), as a sequence of rows,
\* first row = seed sd.
RECURSIVE contour_rows(_, _, _, _, _)
contour_rows(M, sd, n, rr, nb) ==
    IF sd >= n THEN << [j \in 1 .. nb + 1 |-> 0] >>
    ELSE LET rest == contour_rows(M, sd + 1, n, rr, nb)
         IN  <<contour_row(M, sd, rr, nb, rest[1], <<>>)>> \o rest

build_contours(M, sa, sb, kk, rr) == contour_rows(M, 0, num_seeds(sa, kk), rr, Len(sb))

\* h(pos): the potential r+1 of every seed that starts at or after pos.i,
\* minus the best chain of matches starting at or after pos.  Rows beyond
\* |B| hold no match.
h_value(C, n, kk, rr, nb, pos) ==
    LET sd == div_ceil(pos[1], kk)
    IN  IF sd >= n THEN 0
        ELSE IF pos[2] > nb THEN (rr + 1) * (n - sd)
        ELSE (rr + 1) * (n - sd) - C[sd + 1][Max(pos[2], 0) + 1]

\* Heuristic::h / h_with_hint on the contours C, and on the current ones
h_on(C, pos) == h_value(C, num_seeds(a, k), k, r, Len(b), pos)
h(pos) == h_on(contours, pos)

\* prune_block: mark the matches starting in the rectangle; contours are
\* left as they are.
prune_block(P, M, kk, i_range, j_range) ==
    { m \in M : \/ m \in P
                \/ /\ i_range[1] <= match_start(m, kk)[1]
                   /\ match_start(m, kk)[1] < i_range[2]
                   /\ j_range[1] <= match_start(m, kk)[2]
                   /\ match_start(m, kk)[2] < j_range[2] }

\* update_contours: drop the pending prunes from the match set
update_matches(M, P) == { m \in M : m \notin P }

----------------------------------------------------------------------------
(* The block store.  A block covers the columns i_range[1]+1 .. i_range[2]  *)
(* over the rows j_range, materialised over `rows`, the word-aligned cover   *)
(* of j_range; cols[c] holds D(i_range[1]+c, j) for the rows of `rows` (the  *)
(* block of column 0 holds that one column).                                 *)

\* the word-aligned cover of a range, cropped to the rows of the grid
round_out(x, nb) ==
    <<(x[1] \div WordRows) * WordRows,
      Min(((x[2] + WordRows - 1) \div WordRows) * WordRows, nb)>>

\* values of the last column of a block
last_col(blk) == blk.cols[Len(blk.cols)]

\* value of column `col` (a sequence over the rows lo..hi) at row j; rows
\* below the range continue with vertical increments of +1
col_val(col, lo, hi, j) ==
    IF j > hi THEN col[hi - lo + 1] + (j - hi)
    ELSE IF j < lo THEN col[1] + (lo - j)
    ELSE col[j - lo + 1]

\* Block::index
index(blk, j) == col_val(last_col(blk), blk.rows[1], blk.rows[2], j)

\* Block::get: the value at row j when the block holds it
get(blk, j) ==
    IF blk.rows[1] <= j /\ j <= blk.rows[2] THEN <<index(blk, j)>> ELSE None

\* substitution cost of a[c] against b[j]
sub_cost(sa, sb, c, j) == IF sa[c] = sb[j] THEN 0 ELSE 1

\* One column of the unit-cost recurrence over the rows lo..hi from the
\* previous column `prev` (over plo..phi): the top row takes a horizontal
\* step of +1, every other row the minimum of the three predecessors.
RECURSIVE column_rows(_, _, _, _, _, _, _, _, _)
column_rows(sa, sb, c, prev, plo, phi, lo, hi, acc) ==
    LET j == lo + Len(acc)
    IN  IF j > hi THEN acc
        ELSE LET diag == col_val(prev, plo, phi, j - 1) + sub_cost(sa, sb, c, j)
                 hor  == col_val(prev, plo, phi, j) + 1
                 ver  == acc[Len(acc)] + 1
             IN  column_rows(sa, sb, c, prev, plo, phi, lo, hi,
                             Append(acc, Min(diag, Min(hor, ver))))

next_column(sa, sb, c, prev, plo, phi, lo, hi) ==
    column_rows(sa, sb, c, prev, plo, phi, lo, hi, <<col_val(prev, plo, phi, lo) + 1>>)

\* the columns is+1 .. ie over lo..hi, the first from `prev` over plo..phi
RECURSIVE block_columns(_, _, _, _, _, _, _, _, _)
block_columns(sa, sb, c, ie, prev, plo, phi, lo, hi) ==
    IF c > ie THEN <<>>
    ELSE LET col == next_column(sa, sb, c, prev, plo, phi, lo, hi)
         IN  <<col>> \o block_columns(sa, sb, c + 1, ie, col, lo, hi, lo, hi)

\* Blocks::init: the block of column 0, D(0, j) = j
init_block(sb, j_range) ==
    LET rows == round_out(j_range, Len(sb))
    IN  [ i_range |-> <<-1, 0>>,
          j_range |-> j_range,
          rows |-> rows,
          cols |-> << [n \in 1 .. (rows[2] - rows[1] + 1) |-> rows[1] + n - 1] >>,
          fixed_j_range |-> None ]

\* Blocks::compute_next_block: the block after `prev`
compute_block(sa, sb, prev, i_range, j_range) ==
    LET rows == round_out(j_range, Len(sb))
    IN  [ i_range |-> i_range,
          j_range |-> j_range,
          rows |-> rows,
          cols |-> block_columns(sa, sb, i_range[1] + 1, i_range[2], last_col(prev),
                                 prev.rows[1], prev.rows[2], rows[1], rows[2]),
          fixed_j_range |-> None ]

\* Blocks::next_block_j_range: the range stored for the block after the last
next_block_j_range(bs, l) == IF l + 1 <= Len(bs) THEN bs[l + 1].j_range ELSE None

\* the store with block number n replaced (or appended)
put_block(bs, n, blk) ==
    IF n <= Len(bs) THEN [bs EXCEPT ![n] = blk] ELSE Append(bs, blk)

\* Blocks::set_last_block_fixed_j_range
set_fixed(bs, n, x) == [bs EXCEPT ![n].fixed_j_range = x]

----------------------------------------------------------------------------
(* The range controller: AstarPa2Instance::j_range and fixed_j_range        *)

\* rows added to v.j by the sparse search (domain.rs: `+ 8`)
SparseStep == 8

\* the closure f of j_range: gu + extend_cost(u, v) + h(v)
f_from(C, u, gu, v) == gu + extend_cost(u, v) + h_on(C, v)

\* sparse_h off: `while v.1 <= b.len() && f(v) <= f_max { v.1 += 1 }`
RECURSIVE extend_down(_, _, _, _, _, _)
extend_down(C, u, gu, f_max, vi, vj) ==
    IF vj <= Len(b) /\ f_from(C, u, gu, <<vi, vj>>) <= f_max
    THEN extend_down(C, u, gu, f_max, vi, vj + 1)
    ELSE vj

\* sparse_h off: `while v.0 < ie { v += Pos(1,1); v.1 += 1; ...; v.1 -= 1 }`
RECURSIVE dense_search(_, _, _, _, _, _)
dense_search(C, u, gu, f_max, ie, v) ==
    IF v[1] < ie
    THEN dense_search(C, u, gu, f_max, ie,
                      <<v[1] + 1, extend_down(C, u, gu, f_max, v[1] + 1, v[2] + 2) - 1>>)
    ELSE v

\* a jump of the whole excess of f over the bound
sparse_jump_whole(fv, f_max, extend) == fv - f_max

\* lines 201 and 217: the jump `(fv - f_max).div_ceil(2 * extend)` of the
\* sparse search, f changing by at most 2 per step
sparse_jump(fv, f_max, extend) == div_ceil(fv - f_max, 2 * extend)

\* sparse_h on, first loop: right while out of scope, down while in scope
RECURSIVE sparse_right_down(_, _, _, _, _, _)
sparse_right_down(C, u, gu, f_max, ie, v) ==
    IF v[1] <= ie /\ v[2] < Len(b)
    THEN LET fv == f_from(C, u, gu, v)
         IN  IF fv <= f_max
             THEN sparse_right_down(C, u, gu, f_max, ie, <<v[1], v[2] + SparseStep>>)
             ELSE sparse_right_down(C, u, gu, f_max, ie,
                     <<v[1] + sparse_jump(fv, f_max, min_del_extend), v[2]>>)
    ELSE v

\* line 220: `v.1 < v.0 - u.0 + u.1`, v is above the diagonal of u
above_diagonal(u, vi, vj) == vj < vi - u[1] + u[2]

\* sparse_h on, second loop: up in the last column until in scope
RECURSIVE sparse_up(_, _, _, _, _)
sparse_up(C, u, gu, f_max, v) ==
    IF v[2] < 0 \/ v[2] = Len(b) THEN v
    ELSE LET fv == f_from(C, u, gu, v)
         IN  IF fv <= f_max THEN v
             ELSE LET vj == v[2] - sparse_jump(fv, f_max, min_ins_extend)
                  IN  IF above_diagonal(u, v[1], vj)
                      THEN <<v[1], v[1] - u[1] + u[2]>>
                      ELSE sparse_up(C, u, gu, f_max, <<v[1], vj>>)

sparse_search(C, u, gu, f_max, ie) ==
    LET v0 == <<u[1] + 1, Min(u[2] + 1 + block_width + SparseStep, Len(b))>>
        v1 == sparse_right_down(C, u, gu, f_max, ie, v0)
    IN  sparse_up(C, u, gu, f_max, <<ie, v1[2]>>)

\* the range from the last fixed row of the previous block on
astar_range_below_fixed(C, i_range, f_max, prev, old_range) ==
    LET fixed == prev.fixed_j_range
        fixed_end == IF old_range # None THEN Max(fixed[2], old_range[2]) ELSE fixed[2]
        u == <<i_range[1], fixed_end>>
        gu == IF i_range[1] < 0 THEN 0 ELSE index(prev, fixed_end)
        v == IF ~sparse_h
             THEN dense_search(C, u, gu, f_max, i_range[2], u)
             ELSE sparse_search(C, u, gu, f_max, i_range[2])
    IN  JRange(fixed_end, v[2])

\* the Astar arm of j_range, before the union with old_range and the crop
astar_range(C, i_range, f_max, prev, old_range) ==
    LET fixed == prev.fixed_j_range
        fixed_start == IF old_range # None THEN Min(fixed[1], old_range[1]) ELSE fixed[1]
        fixed_end == IF old_range # None THEN Max(fixed[2], old_range[2]) ELSE fixed[2]
        u == <<i_range[1], fixed_end>>
        gu == IF i_range[1] < 0 THEN 0 ELSE index(prev, fixed_end)
        v == IF ~sparse_h
             THEN dense_search(C, u, gu, f_max, i_range[2], u)
             ELSE sparse_search(C, u, gu, f_max, i_range[2])
    IN  JRange(fixed_start, v[2])

\* the range without the stored one
widen_forgets(range, old_range) == range

\* lines 231-233: `if let Some(old_range) = old_range { range = range.union(old_range) }`
widen(range, old_range) == IF old_range # None THEN union(range, old_range) ELSE range

\* lines 99-105: the GapStart arm
gap_start_range(is, ie, fm) ==
    JRange(is + 1 + -max_del_for_cost(fm), ie + max_ins_for_cost(fm))

\* the band between the diagonals of the start and of the end alone
gap_gap_range_no_extra(is, ie, fm) ==
    LET d == Len(b) - Len(a)
    IN  JRange(is + 1 + Min(d, 0), ie + Max(d, 0))

\* lines 106-117: the GapGap arm
gap_gap_range(is, ie, fm) ==
    LET d == Len(b) - Len(a)
        sg == fm - gap_cost(<<0, 0>>, target(a, b))
        extra_diagonals == trunc_div(sg, min_ins_extend + min_del_extend)
    IN  JRange(is + 1 + Min(d, 0) - extra_diagonals,
               ie + Max(d, 0) + extra_diagonals)

\* lines 90-235: the range under the bound fm
bounded_range(C, i_range, fm, prev, old_range) ==
    LET is == i_range[1]
        ie == i_range[2]
        range ==
          CASE domain = "Full" -> JRange(0, Len(b))
            [] domain = "GapStart" -> gap_start_range(is, ie, fm)
            [] domain = "GapGap" -> gap_gap_range(is, ie, fm)
            [] OTHER -> astar_range(C, i_range, fm, prev, old_range)
    IN  intersection(widen(range, old_range), JRange(0, Len(b)))

\* the range with an absent bound taken as the bound 0
j_range_absent_as_zero(C, i_range, f_max, prev, old_range) ==
    bounded_range(C, i_range, IF f_max = None THEN 0 ELSE f_max[1], prev, old_range)

\* j_range(i_range, f_max, prev, old_range); f_max is None or <<bound>>
j_range(C, i_range, f_max, prev, old_range) ==
    IF f_max = None THEN JRange(0, Len(b))
    ELSE bounded_range(C, i_range, f_max[1], prev, old_range)

\* the closure f of fixed_j_range: block.index(j) + h(Pos(i, j))
f_fixed(C, col_i, blk, j) == index(blk, j) + h_on(C, <<col_i, j>>)

\* a step of the whole excess of f over the bound
fixed_step_whole(fv, f_max) ==
    IF sparse_h THEN fv - f_max ELSE 1

\* step of the fixed-range scans
fixed_step(fv, f_max) ==
    IF sparse_h THEN div_ceil(fv - f_max, 2 * min_ins_extend) ELSE 1

RECURSIVE fixed_start_scan(_, _, _, _, _, _)
fixed_start_scan(C, col_i, f_max, blk, start, end) ==
    IF start <= end
    THEN LET fv == f_fixed(C, col_i, blk, start)
         IN  IF fv <= f_max THEN start
             ELSE fixed_start_scan(C, col_i, f_max, blk, start + fixed_step(fv, f_max), end)
    ELSE start

RECURSIVE fixed_end_scan(_, _, _, _, _, _)
fixed_end_scan(C, col_i, f_max, blk, start, end) ==
    IF end >= start
    THEN LET fv == f_fixed(C, col_i, blk, end)
         IN  IF fv <= f_max THEN end
             ELSE fixed_end_scan(C, col_i, f_max, blk, start, end - fixed_step(fv, f_max))
    ELSE end

\* the whole range of the block, without the scans
fixed_j_range_unscanned(C, col_i, f_max, blk) ==
    IF domain # "Astar" \/ f_max = None THEN None ELSE blk.j_range

\* fixed_j_range(i, f_max, block): None outside the A* domain or without a bound
fixed_j_range(C, col_i, f_max, blk) ==
    IF domain # "Astar" THEN None
    ELSE IF f_max = None THEN None
    ELSE LET start == fixed_start_scan(C, col_i, f_max[1], blk, blk.j_range[1], blk.j_range[2])
             end == fixed_end_scan(C, col_i, f_max[1], blk, start, blk.j_range[2])
         IN  JRange(start, end)

----------------------------------------------------------------------------
(* Traceback over the stored blocks (Blocks::trace)                          *)

\* number of the block that holds column c
RECURSIVE block_of(_, _, _)
block_of(bs, c, n) ==
    IF n >= Len(bs) \/ c <= bs[n].i_range[2] THEN n ELSE block_of(bs, c, n + 1)

\* D(c, j) as stored, and the first stored row of column c
stored_val(bs, c, j) ==
    LET blk == bs[block_of(bs, c, 1)]
    IN  col_val(blk.cols[c - blk.i_range[1]], blk.rows[1], blk.rows[2], j)
stored_lo(bs, c) == bs[block_of(bs, c, 1)].rows[1]

\* The edit script from (0,0) to (ci, cj), last operation last: prefer the
\* diagonal, then the horizontal, then the vertical predecessor.
RECURSIVE trace_back(_, _, _, _, _, _)
trace_back(bs, sa, sb, ci, cj, acc) ==
    IF ci = 0 /\ cj = 0 THEN acc
    ELSE LET d == stored_val(bs, ci, cj)
         IN  IF /\ ci > 0 /\ cj > 0 /\ cj - 1 >= stored_lo(bs, ci - 1)
                /\ stored_val(bs, ci - 1, cj - 1) + sub_cost(sa, sb, ci, cj) = d
             THEN trace_back(bs, sa, sb, ci - 1, cj - 1,
                      <<IF sa[ci] = sb[cj] THEN "=" ELSE "X">> \o acc)
             ELSE IF ci > 0 /\ cj >= stored_lo(bs, ci - 1)
                     /\ stored_val(bs, ci - 1, cj) + 1 = d
             THEN trace_back(bs, sa, sb, ci - 1, cj, <<"D">> \o acc)
             ELSE IF cj > 0 /\ cj - 1 >= stored_lo(bs, ci)
                     /\ stored_val(bs, ci, cj - 1) + 1 = d
             THEN trace_back(bs, sa, sb, ci, cj - 1, <<"I">> \o acc)
             ELSE <<"?">> \o acc

\* Cigar: walking the operations over a and b from (0,0)
RECURSIVE cigar_end(_, _, _, _, _, _)
cigar_end(c, sa, sb, n, pi, pj) ==
    IF n > Len(c) THEN <<pi, pj>>
    ELSE CASE c[n] = "=" ->
                IF pi < Len(sa) /\ pj < Len(sb) /\ sa[pi + 1] = sb[pj + 1]
                THEN cigar_end(c, sa, sb, n + 1, pi + 1, pj + 1) ELSE <<-1, -1>>
           [] c[n] = "X" ->
                IF pi < Len(sa) /\ pj < Len(sb) /\ sa[pi + 1] # sb[pj + 1]
                THEN cigar_end(c, sa, sb, n + 1, pi + 1, pj + 1) ELSE <<-1, -1>>
           [] c[n] = "D" ->
                IF pi < Len(sa) THEN cigar_end(c, sa, sb, n + 1, pi + 1, pj) ELSE <<-1, -1>>
           [] c[n] = "I" ->
                IF pj < Len(sb) THEN cigar_end(c, sa, sb, n + 1, pi, pj + 1) ELSE <<-1, -1>>
           [] OTHER -> <<-1, -1>>

\* the cigar turns a into b
cigar_applies(c, sa, sb) == cigar_end(c, sa, sb, 1, 0, 0) = <<Len(sa), Len(sb)>>
\* number of X, I and D operations
cigar_cost(c) == Cardinality({n \in 1 .. Len(c) : c[n] # "="})

----------------------------------------------------------------------------
(* One bounded attempt: AstarPa2Instance::align_for_bounded_dist            *)

\* the f_max of the running attempt
F_max == IF driver = "unbounded_call" THEN None ELSE <<s>>

\* return values: None, and Some((dist, cigar))
ret_none == [some |-> FALSE, cost |-> 0, has_cigar |-> FALSE, cigar |-> <<>>]
ret_some(dist, has, c) == [some |-> TRUE, cost |-> dist, has_cigar |-> has, cigar |-> c]

\* the block passed as `prev` for the first column
first_prev ==
    [ i_range |-> <<-1, -1>>, j_range |-> <<0, 0>>, rows |-> <<0, 0>>,
      cols |-> << <<0>> >>, fixed_j_range |-> JRange(-1, -1) ]

\* `self.params.prune && let Astar(h) = &mut self.domain`
heuristic_pruned == prune /\ domain = "Astar"

\* the matches when nothing is flushed
unflushed_matches == matches

\* the matches after `h.update_contours(Pos(0, 0))`
flushed_matches == IF heuristic_pruned THEN update_matches(matches, pending) ELSE matches

\* only an empty range ends the call
no_start_if_empty(jr) == is_empty(jr)

\* `initial_j_range.is_empty() || initial_j_range.0 > 0`
no_start(jr) == is_empty(jr) \/ jr[1] > 0

\* lines 315-370: flush the pending prunes and rebuild the contours, the
\* range of column 0 under the new contours, init
StartAttempt ==
    /\ pc = "start"
    /\ matches' = flushed_matches
    /\ pending' = IF heuristic_pruned THEN {} ELSE pending
    /\ contours' = IF heuristic_pruned /\ pending # {}
                   THEN build_contours(matches', a, b, k, r) ELSE contours
    /\ LET initial_j_range == j_range(contours', first_col, F_max, first_prev,
                                      next_block_j_range(blocks, 0))
       IN  IF no_start(initial_j_range)
           THEN /\ ret' = ret_none
                /\ pc' = "returned"
                /\ last' = 0
                /\ UNCHANGED <<blocks, i, all_blocks_reused>>
           ELSE /\ blocks' = set_fixed(put_block(blocks, 1, init_block(b, initial_j_range)),
                                       1, initial_j_range)
                /\ last' = 1
                /\ i' = 0
                /\ all_blocks_reused' = TRUE
                /\ pc' = IF Len(a) = 0 THEN "finish" ELSE "col"
                /\ UNCHANGED ret
    /\ UNCHANGED <<config, beside_engine, s, tried, rejected>>

\* The block the loop is about to process (pc = "col"): its columns, the
\* last block, the range stored for it by an earlier attempt, its range.
cur_i_range == <<i, Min(i + block_width, Len(a))>>
cur_prev == blocks[last]
cur_old_range == next_block_j_range(blocks, last)
cur_j_range == j_range(contours, cur_i_range, F_max, cur_prev, cur_old_range)

\* a block is reused whenever its range is the stored one
reuse_block_if_same_range(old_range, jr, all_reused) == old_range = jr

\* `blocks.next_block_j_range() == Some(j_range) && all_blocks_reused`
reuse_block(old_range, jr, all_reused) == old_range = jr /\ all_reused

\* the block appended for the range jr: reused or computed
next_block(jr) ==
    IF reuse_block(cur_old_range, jr, all_blocks_reused)
    THEN blocks[last + 1]
    ELSE compute_block(a, b, cur_prev, cur_i_range, jr)

\* the fixed range of the appended block
cur_fixed_j_range(blk) == fixed_j_range(contours, cur_i_range[2], F_max, blk)

\* j_range panics in the A* domain when the previous block has no fixed
\* range (expect) or an empty one (assert)
j_range_panics ==
    /\ domain = "Astar" /\ F_max # None
    /\ (cur_prev.fixed_j_range = None \/ is_empty(cur_prev.fixed_j_range))

\* the fixed range of the block before read after the new block is appended
prune_rows_of_next(prev_fixed, next_fixed) == next_fixed

\* pruning in every row of the grid
prune_rows_all(prev_fixed, next_fixed) == JRange(0, Len(b) + 1)

\* the rows whose matches are pruned after a block: the intersection of
\* the previous and the next fixed range
prune_rows(prev_fixed, next_fixed) == intersection(prev_fixed, next_fixed)

\* line 436: the columns `i_range.0..i_range.1` whose matches are pruned
prune_columns(i_range) == i_range

\* the loop goes on whatever the fixed range
no_fixed_states_never(fixed) == FALSE

\* line 420: `next_fixed_j_range.is_some_and(|r| r.is_empty())`
no_fixed_states(fixed) == fixed # None /\ is_empty(fixed)

\* lines 374-439: one pass of the loop over the blocks
ColumnBlock ==
    /\ pc = "col"
    /\ IF j_range_panics
       THEN /\ pc' = "panic"
            /\ UNCHANGED <<blocks, last, i, all_blocks_reused, pending, ret>>
       ELSE
       LET jr == cur_j_range
           reuse == reuse_block(cur_old_range, jr, all_blocks_reused)
           prev_fixed_j_range == cur_prev.fixed_j_range
           blk == next_block(jr)
           appended == put_block(blocks, last + 1, blk)
           next_fixed_j_range == cur_fixed_j_range(blk)
           next_pc == IF i + block_width >= Len(a) THEN "finish" ELSE "col"
       IN  IF is_empty(jr)
           THEN /\ pc' = IF cur_old_range = None THEN "returned" ELSE "panic"
                /\ ret' = ret_none
                /\ UNCHANGED <<blocks, last, i, all_blocks_reused, pending>>
           ELSE IF no_fixed_states(next_fixed_j_range)
           THEN /\ blocks' = appended
                /\ last' = last + 1
                /\ all_blocks_reused' = reuse
                /\ ret' = ret_none
                /\ pc' = "returned"
                /\ UNCHANGED <<i, pending>>
           ELSE /\ blocks' = set_fixed(appended, last + 1, next_fixed_j_range)
                /\ last' = last + 1
                /\ all_blocks_reused' = reuse
                /\ i' = i + block_width
                /\ UNCHANGED ret
                /\ IF heuristic_pruned
                   THEN IF prev_fixed_j_range = None \/ next_fixed_j_range = None
                        THEN /\ pc' = "panic"
                             /\ UNCHANGED pending
                        ELSE LET both == prune_rows(prev_fixed_j_range, next_fixed_j_range)
                             IN  /\ pending' = IF ~is_empty(both)
                                               THEN prune_block(pending, matches, k,
                                                                prune_columns(cur_i_range),
                                                                both)
                                               ELSE pending
                                 /\ pc' = next_pc
                   ELSE /\ pc' = next_pc
                        /\ UNCHANGED pending
    /\ UNCHANGED <<config, beside_engine, s, tried, rejected, matches, contours>>

\* the value one row above the last
read_dist_row_above(bs, l) == get(bs[l], Len(b) - 1)

\* line 443: `blocks.last_block().get(self.b.len() as I)`
read_dist(bs, l) == get(bs[l], Len(b))

\* the cigar is made whenever a trace was asked for
with_cigar_unbounded(tr, dist, f_max) == tr

\* line 448: `trace && dist <= f_max.unwrap_or(I::MAX)`
with_cigar(tr, dist, f_max) == tr /\ (f_max = None \/ dist <= f_max[1])

\* lines 443-462: what the call returns after the loop
finish_result ==
    LET dist == read_dist(blocks, last)
    IN  IF dist = None THEN ret_none
        ELSE IF with_cigar(trace, dist[1], F_max)
        THEN ret_some(dist[1], TRUE, trace_back(blocks, a, b, Len(a), Len(b), <<>>))
        ELSE ret_some(dist[1], FALSE, <<>>)

\* lines 441-463: read the distance from the last block, trace back
Finish ==
    /\ pc = "finish"
    /\ ret' = finish_result
    /\ pc' = "returned"
    /\ UNCHANGED <<config, beside_engine, s, tried, rejected, i, all_blocks_reused, blocks, last,
                   matches, pending, contours>>

----------------------------------------------------------------------------
(* The exponential search driver (Aligner::align_exponential_search)         *)

\* `gap_cost(Pos(0, 0), Pos::from_lengths(a, b))`
initial_bound(sa, sb) == gap_cost(<<0, 0>>, target(sa, sb))

\* any defined cost is taken
accepts_any_cost(res, bound) == res.some

\* `if let Some(cost) = ... && cost <= s`
accepts(res, bound) == res.some /\ res.cost <= bound

\* doubling alone
next_bound_doubles(bound) == 2 * bound

\* `s = max(2 * s, 1)`
next_bound(bound) == Max(2 * bound, 1)

Accept ==
    /\ pc = "returned"
    /\ driver = "exponential_search"
    /\ accepts(ret, s)
    /\ pc' = "done"
    /\ UNCHANGED <<config, beside_engine, s, tried, rejected, i, all_blocks_reused, blocks, last,
                   matches, pending, contours, ret>>

Retry ==
    /\ pc = "returned"
    /\ driver = "exponential_search"
    /\ ~accepts(ret, s)
    /\ Len(tried) < MaxAttempts
    /\ s' = next_bound(s)
    /\ tried' = Append(tried, next_bound(s))
    /\ rejected' = Append(rejected, ret)
    /\ pc' = "start"
    /\ UNCHANGED <<config, beside_engine, i, all_blocks_reused, blocks, last, matches, pending,
                   contours, ret>>

\* a direct call of align_for_bounded_dist returns to its caller
Return ==
    /\ pc = "returned"
    /\ driver # "exponential_search"
    /\ pc' = "done"
    /\ UNCHANGED <<config, beside_engine, s, tried, rejected, i, all_blocks_reused, blocks, last,
                   matches, pending, contours, ret>>

\* The caller of align_for_bounded_dist hands in the block store: a caller
\* other than the driver calls again on the same store, with any bound.
CallAgain ==
    /\ pc = "done"
    /\ driver = "bounded_call"
    /\ Len(tried) < MaxCalls
    /\ \E s1 \in 0 .. MaxBound :
          /\ s' = s1
          /\ tried' = Append(tried, s1)
    /\ pc' = "start"
    /\ UNCHANGED <<config, beside_engine, rejected, i, all_blocks_reused, blocks, last, matches,
                   pending, contours, ret>>

----------------------------------------------------------------------------
(* Specification *)

\* sequences over the alphabet of length at most n
SeqsUpTo(n) == UNION { [1 .. m -> Alphabet] : m \in 0 .. n }

\* Pairs of inputs up to renaming of the alphabet (the engine only compares
\* characters): the first character of the pair is the first of the alphabet.
InputPairs ==
    { p \in SeqsUpTo(MaxLen) \X SeqsUpTo(MaxLen) :
        LET both == p[1] \o p[2]
        IN  both = <<>> \/ both[1] = 1 }

\* the parts of the model that are not running
profile_rest ==
    /\ profile = "Scatter" /\ text_a = <<>> /\ text_b = <<>> /\ pa = <<>> /\ pb = <<>>
    /\ row = 0 /\ build_pc = "rest"
kernel_rest ==
    /\ pv = 0 /\ mv = 0 /\ ph0 = 0 /\ mh0 = 0 /\ eq = 0 /\ kernel_pc = "rest"
runner_rest ==
    /\ timeout = <<>> /\ elapsed = 0 /\ pairs = 0 /\ started = 0 /\ sample_size = 0
    /\ runner_pc = "rest"
mutation_rest ==
    /\ mut_k = 0 /\ kmer = 0 /\ mut_config = <<>> /\ mut_dedup = FALSE
    /\ mut_result = <<>> /\ mut_pc = "rest"

\* the state after construction, for the inputs and the configuration given
Setup(sa, sb, dom, sp, pr, bw, tr, kk, rr, dr, s0) ==
    /\ a = sa /\ b = sb /\ domain = dom /\ sparse_h = sp /\ prune = pr
    /\ block_width = bw /\ trace = tr /\ k = kk /\ r = rr /\ driver = dr
    /\ s = s0
    /\ tried = <<s0>>
    /\ rejected = <<>>
    /\ pc = "start"
    /\ i = 0
    /\ all_blocks_reused = TRUE
    /\ blocks = <<>>
    /\ last = 0
    /\ matches = IF dom = "Astar" THEN find_matches(sa, sb, kk, rr) ELSE {}
    /\ pending = {}
    /\ contours = IF dom = "Astar" THEN build_contours(matches, sa, sb, kk, rr) ELSE <<>>
    /\ ret = ret_none
    /\ profile_rest /\ kernel_rest /\ runner_rest /\ mutation_rest

\* the domains with the heuristic options that matter to each
Configs ==
    { <<"Full", FALSE, FALSE, 1, 0>>, <<"GapStart", FALSE, FALSE, 1, 0>>,
      <<"GapGap", FALSE, FALSE, 1, 0>> }
    \cup { <<"Astar", sp, pr, kk, rr>> :
              sp \in BOOLEAN, pr \in BOOLEAN, kk \in 1 .. MaxK, rr \in 0 .. MaxR }

\* align: the exponential search from the gap cost of the two lengths
Init ==
    \E p \in InputPairs, c \in Configs, bw \in 1 .. MaxBlockWidth, tr \in BOOLEAN :
        Setup(p[1], p[2], c[1], c[2], c[3], bw, tr, c[4], c[5], "exponential_search",
              initial_bound(p[1], p[2]))

\* one direct call of align_for_bounded_dist, with a bound or without
InitCall ==
    \E p \in InputPairs, c \in Configs, bw \in 1 .. MaxBlockWidth, tr \in {FALSE} :
        \/ \E s0 \in 0 .. MaxBound :
              Setup(p[1], p[2], c[1], c[2], c[3], bw, tr, c[4], c[5], "bounded_call", s0)
        \/ Setup(p[1], p[2], c[1], c[2], c[3], bw, tr, c[4], c[5], "unbounded_call", 0)

\* Long inputs: A is a fixed text of LongLen characters over four letters,
\* B is A after at most MaxEdits edits (substitution, deletion, insertion)
\* at the positions EditPositions.
Pattern == <<1, 2, 3, 4, 1, 3, 2, 4, 4, 1, 2, 3, 3, 1, 4, 2>>
long_text == [n \in 1 .. LongLen |-> Pattern[((n - 1) % Len(Pattern)) + 1]]

\* the letter after x
other(x) == (x % 4) + 1

edit(sq, kind, p) ==
    CASE kind = "sub" -> [sq EXCEPT ![p] = other(sq[p])]
      [] kind = "del" -> SubSeq(sq, 1, p - 1) \o SubSeq(sq, p + 1, Len(sq))
      [] OTHER -> SubSeq(sq, 1, p - 1) \o <<other(sq[p])>> \o SubSeq(sq, p, Len(sq))

RECURSIVE edited(_, _)
edited(S, n) ==
    IF n = 0 THEN S
    ELSE edited(S \cup { edit(sq, kind, p) :
                           sq \in { x \in S : Len(x) >= LongLen - 1 },
                           kind \in {"sub", "del", "ins"},
                           p \in EditPositions }, n - 1)

LongConfigs ==
    { <<"Astar", sp, pr, kk, rr>> :
        sp \in BOOLEAN, pr \in BOOLEAN, kk \in 2 .. LongK, rr \in 0 .. MaxR }

InitLong ==
    \E sb \in edited({long_text}, MaxEdits), c \in LongConfigs, bw \in {1, LongBlockWidth} :
        Setup(long_text, sb, c[1], c[2], c[3], bw, FALSE, c[4], c[5], "exponential_search",
              initial_bound(long_text, sb))

Next == StartAttempt \/ ColumnBlock \/ Finish \/ Accept \/ Retry

Spec == Init /\ [][Next]_vars

\* The loop of the driver keeps running: no step is postponed for ever.
\* Inputs of at most MaxLenFair characters, cost only.
InitFair ==
    \E p \in InputPairs, c \in Configs, bw \in 1 .. MaxBlockWidth :
        /\ Len(p[1]) <= MaxLenFair /\ Len(p[2]) <= MaxLenFair
        /\ Setup(p[1], p[2], c[1], c[2], c[3], bw, FALSE, c[4], c[5], "exponential_search",
                 initial_bound(p[1], p[2]))

\* the states in which Next can take a step
can_step ==
    \/ pc \in {"start", "col", "finish"}
    \/ pc = "returned" /\ driver = "exponential_search"
          /\ (accepts(ret, s) \/ Len(tried) < MaxAttempts)

\* Weak fairness of Next, with ENABLED <<Next>>_vars written out as can_step
\* (every step of Next changes pc); the fairness of the two steps of the
\* driver follows from it.
FairSpec ==
    /\ InitFair /\ [][Next]_vars
    /\ ([]<>(~can_step) \/ []<><<Next>>_vars)
    /\ WF_vars(Accept) /\ WF_vars(Retry)

SpecLong == InitLong /\ [][Next]_vars

NextCall == StartAttempt \/ ColumnBlock \/ Finish \/ Return \/ CallAgain

SpecCall == InitCall /\ [][NextCall]_vars

----------------------------------------------------------------------------
(* Properties *)

\* the unit-cost edit distance of the inputs, by the quadratic reference
dist == nw_cost(a, b)

\* C1: for every pair of sequences and every domain (Full, GapStart, GapGap,
\* Astar), the cost returned by the exponential search equals the unit-cost
\* edit distance computed by the Needleman-Wunsch reference.
C1_CostIsEditDistance ==
    pc = "done" => ret.some /\ ret.cost = dist

\* C2: whenever a CIGAR is returned with a cost, applying its operations to
\* A yields exactly B, and its number of X, I and D operations equals the
\* returned cost.
C2_CigarYieldsBAtReturnedCost ==
    pc = "done" /\ ret.has_cigar =>
        /\ cigar_applies(ret.cigar, a, b)
        /\ cigar_cost(ret.cigar) = ret.cost

\* a returned CIGAR with an insertion, a deletion and a substitution or two
C2_Witness ==
    /\ pc = "done" /\ ret.has_cigar /\ Len(tried) >= 2
    /\ cigar_cost(ret.cigar) >= 2
    /\ \E n \in 1 .. Len(ret.cigar) : ret.cigar[n] = "I"
    /\ \E n \in 1 .. Len(ret.cigar) : ret.cigar[n] = "D"

\* C3: an attempt with a bound s >= dist(A,B) returns Some(dist(A,B)), never
\* None and never a cost above s; a returned cost <= s is the exact
\* distance; so every rejected bound is below dist(A,B), and the accepted
\* bound is the initial one or less than 2*dist(A,B).
C3_BoundedAttemptExact ==
    /\ pc = "returned" /\ s >= dist => ret.some /\ ret.cost = dist
    /\ pc = "returned" /\ ret.some /\ ret.cost <= s => ret.cost = dist
    /\ \A n \in 1 .. Len(rejected) : tried[n] < dist
    /\ pc = "done" => Len(tried) = 1 \/ s < 2 * dist

\* C4: the driver starts at s = gap_cost((0,0), target), returns the result
\* of the first attempt with a defined cost <= s, replaces s by max(2*s, 1)
\* after every other attempt; None is never returned and the bounds tried
\* are strictly increasing.
C4_DriverReturnsFirstAcceptable ==
    /\ tried[1] = Abs(Len(a) - Len(b))
    /\ s = tried[Len(tried)]
    /\ Len(rejected) = Len(tried) - 1
    /\ \A n \in 1 .. Len(rejected) :
          /\ ~(rejected[n].some /\ rejected[n].cost <= tried[n])
          /\ tried[n + 1] = (IF tried[n] = 0 THEN 1 ELSE 2 * tried[n])
          /\ tried[n + 1] > tried[n]
    /\ pc = "done" => ret.some /\ ret.cost <= s

\* the driver returned after rejecting a None and a cost above the bound
C4_Witness ==
    /\ pc = "done" /\ ret.some
    /\ \E n \in 1 .. Len(rejected) : ~rejected[n].some
    /\ \E n \in 1 .. Len(rejected) : rejected[n].some /\ rejected[n].cost > tried[n]

C6_JRangeNeverShrinks ==
    [][ /\ \A n \in 1 .. Len(blocks) :
              /\ n <= Len(blocks')
              /\ contains_range(blocks'[n].j_range, blocks[n].j_range)
        /\ (pc = "col" /\ ~j_range_panics /\ cur_old_range # None
              => contains_range(cur_j_range, cur_old_range)) ]_vars

\* a later iteration has given a block a strictly larger range than the one
\* stored for it
C6_Witness ==
    /\ pc = "col" /\ Len(tried) >= 2 /\ ~j_range_panics
    /\ cur_old_range # None /\ ~is_empty(cur_old_range)
    /\ cur_j_range # cur_old_range
    /\ contains_range(cur_j_range, cur_old_range)

scanned_blocks ==
    IF domain = "Astar" /\ pc \in {"col", "finish", "returned", "done"}
    THEN { n \in 2 .. last : blocks[n].fixed_j_range # None }
    ELSE {}

\* C8 as stated: every row inside a non-empty fixed range has
\* f(i,j) = block.D(j) + h(i,j) <= f_max, not only the two end rows.
C8_EveryFixedRowWithinBound ==
    \A n \in scanned_blocks :
        \A j \in blocks[n].fixed_j_range[1] .. blocks[n].fixed_j_range[2] :
            f_fixed(contours, blocks[n].i_range[2], blocks[n], j) <= s

\* C8, amended: the first and the last row of a non-empty fixed range have
\* f(i,j) = block.D(j) + h(i,j) <= f_max.
C8_FixedEndRowsWithinBound ==
    \A n \in scanned_blocks :
        ~is_empty(blocks[n].fixed_j_range) =>
            \A j \in {blocks[n].fixed_j_range[1], blocks[n].fixed_j_range[2]} :
                f_fixed(contours, blocks[n].i_range[2], blocks[n], j) <= s

\* a fixed range of two rows or more that the scans have cut out of the
\* range of the block, in an iteration after the first
C8_Witness ==
    /\ Len(tried) >= 2
    /\ \E n \in scanned_blocks :
          /\ blocks[n].fixed_j_range[2] > blocks[n].fixed_j_range[1]
          /\ blocks[n].fixed_j_range # blocks[n].j_range

\* C9: the engine returns the same cost with sparse_h on and with sparse_h
\* off: either way it is the edit distance of the inputs.
C9_SparseKeepsCost ==
    \A sp \in BOOLEAN :
        pc = "done" /\ domain = "Astar" /\ sparse_h = sp => ret.some /\ ret.cost = dist

\* the range search jumps: a sparse run of three iterations on inputs two
\* edits apart, with blocks whose range ends above the last row
C9_Witness ==
    /\ pc = "done" /\ domain = "Astar" /\ sparse_h
    /\ Len(tried) >= 3 /\ ret.cost >= 2
    /\ \E n \in 2 .. last : blocks[n].j_range[2] < Len(b)

\* C10: in the A* domain the engine returns the same cost with pruning on
\* and with pruning off, over any number of iterations: either way it is
\* the edit distance of the inputs.
C10_PruningKeepsCost ==
    \A pr \in BOOLEAN :
        pc = "done" /\ domain = "Astar" /\ prune = pr => ret.some /\ ret.cost = dist

\* a run with pruning that flushed pruned matches and went on for two more
\* iterations
C10_Witness ==
    /\ pc = "done" /\ domain = "Astar" /\ prune
    /\ matches # find_matches(a, b, k, r)
    /\ Len(tried) >= 3 /\ ret.cost >= 2

\* one direct call of align_for_bounded_dist on a fresh block store, with a
\* bound or without, with a trace or without
InitOnce ==
    \E p \in InputPairs, c \in Configs, bw \in 1 .. MaxBlockWidth, tr \in BOOLEAN :
        \/ \E s0 \in 0 .. MaxBound :
              Setup(p[1], p[2], c[1], c[2], c[3], bw, tr, c[4], c[5], "bounded_call", s0)
        \/ Setup(p[1], p[2], c[1], c[2], c[3], bw, tr, c[4], c[5], "unbounded_call", 0)

NextOnce == StartAttempt \/ ColumnBlock \/ Finish \/ Return

SpecOnce == InitOnce /\ [][NextOnce]_vars

----------------------------------------------------------------------------
(* The value returned at the end of a call                                  *)

\* the bound of the call allows the distance d
within_f_max(d) == F_max = None \/ d <= F_max[1]

----------------------------------------------------------------------------
(* Words of bits, as natural numbers                                        *)

RECURSIVE bitand(_, _)
bitand(x, y) ==
    IF x = 0 \/ y = 0 THEN 0
    ELSE (x % 2) * (y % 2) + 2 * bitand(x \div 2, y \div 2)

RECURSIVE bitor(_, _)
bitor(x, y) ==
    IF x = 0 THEN y
    ELSE IF y = 0 THEN x
    ELSE Max(x % 2, y % 2) + 2 * bitor(x \div 2, y \div 2)

RECURSIVE bitxor(_, _)
bitxor(x, y) ==
    IF x = 0 THEN y
    ELSE IF y = 0 THEN x
    ELSE ((x + y) % 2) + 2 * bitxor(x \div 2, y \div 2)

\* `x << n` on words of w bits
shl(x, n, w) == (x * 2^n) % 2^w

\* `(0 as B).wrapping_sub(x)` for x in {0, 1}, on words of w bits
wrapping_neg(x, w) == (2^w - x) % 2^w

\* bit n of x
bit(x, n) == (x \div 2^n) % 2

----------------------------------------------------------------------------
(* The profiles of pa-bitpacking: ScatterProfile and BitProfile             *)

\* bits per word of the profile (crate::W is 64)
W == 2
\* longest a and longest b given to build
MaxTextA == 2
MaxTextB == 3

Bases == {"A", "C", "G", "T"}
\* the ambiguity codes, in upper and in lower case
Codes == {"N", "Y", "R", "n", "y", "r"}
Chars == Bases \cup Codes

\* the bases a character stands for
compatible(c) ==
    CASE c \in {"N", "n"} -> Bases
      [] c \in {"Y", "y"} -> {"C", "T"}
      [] c \in {"R", "r"} -> {"A", "G"}
      [] OTHER -> {c}

\* a panic instead of a number, and instead of a mask
Panic == -1
NoMask == <<>>

\* ScatterProfile::build: get_char, with the numbers of G and T exchanged
get_char_ranked(c) ==
    CASE c \in {"a", "A"} -> 0
      [] c \in {"c", "C"} -> 1
      [] c \in {"g", "G"} -> 2
      [] c \in {"t", "T"} -> 3
      [] OTHER -> Panic

\* ScatterProfile::build: get_char
get_char(c) ==
    CASE c \in {"a", "A"} -> 0
      [] c \in {"c", "C"} -> 1
      [] c \in {"t", "T"} -> 2
      [] c \in {"g", "G"} -> 3
      [] OTHER -> Panic

\* ScatterProfile::build: get_mask
get_mask(c) ==
    CASE c \in {"a", "A"} -> <<1, 0, 0, 0>>
      [] c \in {"c", "C"} -> <<0, 1, 0, 0>>
      [] c \in {"t", "T"} -> <<0, 0, 1, 0>>
      [] c \in {"g", "G"} -> <<0, 0, 0, 1>>
      [] c \in {"n", "N", "*"} -> <<1, 1, 1, 1>>
      [] c \in {"y", "Y"} -> <<0, 1, 1, 0>>
      [] c \in {"r", "R"} -> <<1, 0, 0, 1>>
      [] OTHER -> NoMask

\* RankTransform::new(&Alphabet::new(b"ACGT")).get: the rank of a symbol of
\* the alphabet, a panic for any other character
rank(c) ==
    CASE c = "A" -> 0
      [] c = "C" -> 1
      [] c = "G" -> 2
      [] c = "T" -> 3
      [] OTHER -> Panic

\* BitProfile: the exploded encoding of a character of a
bits_of_a(x) == <<wrapping_neg(x % 2, W), wrapping_neg((x \div 2) % 2, W)>>

\* the encoded a as <<pa>>, or None when a character makes the map panic
encode_a(kind, sa) ==
    LET code(c) == IF kind = "Scatter" THEN get_char(c) ELSE rank(c)
    IN  IF \E n \in 1 .. Len(sa) : code(sa[n]) = Panic THEN None
        ELSE << [n \in 1 .. Len(sa) |->
                   IF kind = "Scatter" THEN code(sa[n]) ELSE bits_of_a(code(sa[n]))] >>

\* the character cb of b makes the loop over b panic
unknown_base(kind, cb) ==
    IF kind = "Scatter" THEN get_mask(cb) = NoMask ELSE rank(cb) = Panic

\* `vec![[0; 4]; b.len().div_ceil(W)]` and `vec![Bits(0, 0); b.len().div_ceil(W)]`
empty_profile(kind, sb) ==
    [w \in 1 .. div_ceil(Len(sb), W) |->
        IF kind = "Scatter" THEN <<0, 0, 0, 0>> ELSE <<0, 0>>]

\* ScatterProfile: `pb[j / W][i] |= mask[i] << (j % W)` for i in 0..4
scatter_pack(p, j, mask) ==
    [p EXCEPT ![j \div W + 1] =
        [n \in 1 .. 4 |-> bitor(@[n], shl(mask[n], j % W, W))]]

\* BitProfile: the negated bits of cb at position j
bit_pack(p, j, cb) ==
    [p EXCEPT ![j \div W + 1] =
        << bitor(@[1], shl(bitxor(cb % 2, 1), j % W, W)),
           bitor(@[2], shl(bitxor((cb \div 2) % 2, 1), j % W, W)) >>]

\* `b.len().next_multiple_of(W)`
next_multiple_of(n, w) == div_ceil(n, w) * w

\* where build goes on after j characters of b
after_row(kind, sb, j) ==
    IF j < Len(sb) THEN "pack_b"
    ELSE IF kind = "Scatter" /\ j < next_multiple_of(Len(sb), W) THEN "pad_tail"
    ELSE "built"

\* ScatterProfile::eq
scatter_eq(ca, cb) == cb[ca + 1]

\* BitProfile::eq
bit_eq(ca, cb) == bitand(bitxor(ca[1], cb[1]), bitxor(ca[2], cb[2]))

\* Profile::eq of the profile built
profile_eq(kind, ca, cb) == IF kind = "Scatter" THEN scatter_eq(ca, cb) ELSE bit_eq(ca, cb)

\* Profile::is_match
is_match(kind, p_a, p_b, ci, j) ==
    bitand(profile_eq(kind, p_a[ci + 1], p_b[j \div W + 1]), shl(1, j % W, W)) # 0

\* `let pa = a.iter().map(..).collect_vec()` and the allocation of pb
EncodeA ==
    /\ build_pc = "encode_a"
    /\ LET enc == encode_a(profile, text_a)
       IN  IF enc = None
           THEN /\ build_pc' = "panic"
                /\ UNCHANGED <<pa, pb>>
           ELSE /\ pa' = enc[1]
                /\ pb' = empty_profile(profile, text_b)
                /\ build_pc' = after_row(profile, text_b, 0)
    /\ UNCHANGED <<profile, text_a, text_b, row, engine_vars, kernel_vars, runner_vars, mutation_vars>>

\* one iteration of `for (j, cb) in b.iter().enumerate()`
PackB ==
    /\ build_pc = "pack_b"
    /\ LET cb == text_b[row + 1]
       IN  IF unknown_base(profile, cb)
           THEN /\ build_pc' = "panic"
                /\ UNCHANGED <<pb, row>>
           ELSE /\ pb' = IF profile = "Scatter" THEN scatter_pack(pb, row, get_mask(cb))
                         ELSE bit_pack(pb, row, rank(cb))
                /\ row' = row + 1
                /\ build_pc' = after_row(profile, text_b, row + 1)
    /\ UNCHANGED <<profile, text_a, text_b, pa, engine_vars, kernel_vars, runner_vars, mutation_vars>>

\* ScatterProfile: one iteration of
\* `for j in b.len()..b.len().next_multiple_of(W)`
PadTail ==
    /\ build_pc = "pad_tail"
    /\ pb' = scatter_pack(pb, row, <<1, 1, 1, 1>>)
    /\ row' = row + 1
    /\ build_pc' = after_row(profile, text_b, row + 1)
    /\ UNCHANGED <<profile, text_a, text_b, pa, engine_vars, kernel_vars, runner_vars, mutation_vars>>

\* the engine is not running
engine_rest ==
    /\ a = <<>> /\ b = <<>> /\ domain = "Full" /\ sparse_h = FALSE /\ prune = FALSE
    /\ block_width = 1 /\ trace = FALSE /\ k = 1 /\ r = 0 /\ driver = "rest" /\ s = 0
    /\ pc = "rest" /\ i = 0 /\ all_blocks_reused = TRUE /\ blocks = <<>> /\ last = 0
    /\ matches = {} /\ pending = {} /\ contours = <<>> /\ ret = ret_none
    /\ tried = <<>> /\ rejected = <<>>

\* the sequences over the set S of at most n characters
RECURSIVE TextsUpTo(_, _)
TextsUpTo(S, n) ==
    IF n = 0 THEN {<<>>}
    ELSE LET shorter == TextsUpTo(S, n - 1)
         IN  shorter \cup { Append(sq, c) : sq \in shorter, c \in S }

\* build(a, b) of either profile
InitProfile ==
    /\ profile \in {"Scatter", "Bit"}
    /\ text_a \in TextsUpTo(Chars, MaxTextA)
    /\ text_b \in TextsUpTo(Chars, MaxTextB)
    /\ pa = <<>> /\ pb = <<>> /\ row = 0
    /\ build_pc = "encode_a"
    /\ engine_rest /\ kernel_rest /\ runner_rest /\ mutation_rest

NextProfile == EncodeA \/ PackB \/ PadTail

SpecProfile == InitProfile /\ [][NextProfile]_vars

\* the rows of the words of b: 0 .. W * ceil(|b| / W) - 1
profile_rows == 0 .. next_multiple_of(Len(text_b), W) - 1

\* C12: after build(A, B) of either profile on sequences over {A,C,G,T},
\* is_match(pa, pb, i, j) holds exactly when A[i] = B[j], for every
\* position i of A and j of B.
C12_IsMatchIffEqual ==
    (/\ build_pc = "built"
     /\ \A n \in 1 .. Len(text_a) : text_a[n] \in Bases
     /\ \A n \in 1 .. Len(text_b) : text_b[n] \in Bases)
    => \A ci \in 0 .. Len(text_a) - 1, j \in 0 .. Len(text_b) - 1 :
          is_match(profile, pa, pb, ci, j) <=> (text_a[ci + 1] = text_b[j + 1])

\* a profile of two words is built, with an equal and an unequal pair
C12_Witness ==
    /\ build_pc = "built"
    /\ profile = "Bit"
    /\ text_a = <<"G", "T">>
    /\ text_b = <<"T", "A", "G">>
    /\ is_match(profile, pa, pb, 0, 2)
    /\ ~is_match(profile, pa, pb, 1, 2)

\* C13: in both profiles, every row j of the tail of the last word
\* (|B| <= j < W * ceil(|B| / W)) is a match against every character of A.
C13_TailRowsMatch ==
    build_pc = "built" =>
        \A ci \in 0 .. Len(text_a) - 1 :
            \A j \in { x \in profile_rows : x >= Len(text_b) } :
                is_match(profile, pa, pb, ci, j)

\* C14: build accepts N, Y and R, in upper and lower case, in A and in B,
\* and a code matches exactly the bases it stands for.
C14_AmbiguityCodesAccepted ==
    /\ build_pc # "panic"
    /\ build_pc = "built" =>
          \A ci \in 0 .. Len(text_a) - 1, j \in 0 .. Len(text_b) - 1 :
              (text_a[ci + 1] \in Bases \/ text_b[j + 1] \in Bases) =>
                  (is_match(profile, pa, pb, ci, j)
                     <=> compatible(text_a[ci + 1]) \cap compatible(text_b[j + 1]) # {})

----------------------------------------------------------------------------
(* The column kernel compute_block_simd, on one lane of a Simd vector: the  *)
(* operations of the kernel act on every lane by itself.                    *)

\* bits per lane (B is u64: 64 bits)
LaneBits == 4

\* B::MAX
B_MAX == 2^LaneBits - 1

\* `!x` on a lane
bitnot(x) == B_MAX - x

\* `x + y` on a lane: the sum wraps
wrapping_add(x, y) == (x + y) % 2^LaneBits

\* xh without the addition
xh_bitwise(e, p) == bitor(bitxor(bitor(bitand(e, p), p), p), e)

\* line 30: `(((eq & *pv) + *pv) ^ *pv) | eq`
xh_of(e, p) == bitor(bitxor(wrapping_add(bitand(e, p), p), p), e)

\* the carry put on top of the word, without the shift
shift_in_unshifted(x, h0) == bitor(x, h0)

\* lines 40-41: `(ph << left_shift) | *ph0`
shift_in(x, h0) == bitor(shl(x, 1, LaneBits), h0)

\* lines 35-36: `ph >> right_shift`
shift_out(x) == x \div 2^(LaneBits - 1)

\* lines 25-47: the values of ph0, mh0, pv, mv after the call
compute_block_simd(c_ph0, c_mh0, c_pv, c_mv, c_eq) ==
    LET xv == bitor(c_eq, c_mv)
        eq1 == bitor(c_eq, c_mh0)
        xh == xh_of(eq1, c_pv)
        ph == bitor(c_mv, bitnot(bitor(xh, c_pv)))
        mh == bitand(c_pv, xh)
        phw == shift_out(ph)
        mhw == shift_out(mh)
        ph1 == shift_in(ph, c_ph0)
        mh1 == shift_in(mh, c_mh0)
    IN  [ pv |-> bitor(mh1, bitnot(bitor(xv, ph1))),
          mv |-> bitand(ph1, xv),
          ph0 |-> phw,
          mh0 |-> mhw ]

\* the words whose plus and minus bits are disjoint
disjoint_words == { pm \in (0 .. B_MAX) \X (0 .. B_MAX) : bitand(pm[1], pm[2]) = 0 }

\* lines 74-75: a new column starts with `ph = 1`, `mh = 0`
StartColumn ==
    /\ kernel_pc = "next"
    /\ ph0' = 1
    /\ mh0' = 0
    /\ UNCHANGED <<pv, mv, eq, kernel_pc, engine_vars, profile_vars, runner_vars, mutation_vars>>

\* lines 98-105: the next word of the column and its equality mask
LoadWord ==
    /\ kernel_pc = "next"
    /\ \E pm \in disjoint_words, e \in 0 .. B_MAX :
          /\ pv' = pm[1]
          /\ mv' = pm[2]
          /\ eq' = e
    /\ kernel_pc' = "loaded"
    /\ UNCHANGED <<ph0, mh0, engine_vars, profile_vars, runner_vars, mutation_vars>>

\* line 106: `compute_block_simd(&mut ph[k], &mut mh[k], &mut pv, &mut mv, eqs)`
ComputeBlock ==
    /\ kernel_pc = "loaded"
    /\ LET out == compute_block_simd(ph0, mh0, pv, mv, eq)
       IN  /\ pv' = out.pv
           /\ mv' = out.mv
           /\ ph0' = out.ph0
           /\ mh0' = out.mh0
    /\ kernel_pc' = "next"
    /\ UNCHANGED <<eq, engine_vars, profile_vars, runner_vars, mutation_vars>>

\* lines 66-67 and 74-75: `pv = B::MAX`, `mv = 0`, `ph = 1`, `mh = 0`
InitKernel ==
    /\ pv = B_MAX /\ mv = 0 /\ ph0 = 1 /\ mh0 = 0 /\ eq = 0
    /\ kernel_pc = "next"
    /\ engine_rest /\ profile_rest /\ runner_rest /\ mutation_rest

NextKernel == StartColumn \/ LoadWord \/ ComputeBlock

SpecKernel == InitKernel /\ [][NextKernel]_vars

\* The column of distances a word stands for, from 0 at its top:
\* D[j + 1] = D[j] + 1 where P has bit j, D[j] - 1 where M has it.
RECURSIVE unpack(_, _, _)
unpack(p, m, col) ==
    IF Len(col) = LaneBits + 1 THEN col
    ELSE LET j == Len(col) - 1
         IN  unpack(p, m, Append(col, col[Len(col)] + bit(p, j) - bit(m, j)))

\* the horizontal difference a carry stands for
unpack_h(p0, m0) == p0 - m0

\* The naive update of a column D (rows 0 .. LaneBits, as D[1 ..]): the top
\* moves by h0, then D'[j+1] = min(D[j] + (Eq[j] ? 0 : 1), D[j+1] + 1, D'[j] + 1).
RECURSIVE naive_column(_, _, _)
naive_column(col, e, new) ==
    IF Len(new) = Len(col) THEN new
    ELSE LET j == Len(new) - 1
         IN  naive_column(col, e,
                 Append(new, Min(Min(col[j + 1] + (1 - bit(e, j)), col[j + 2] + 1),
                                 new[j + 1] + 1)))

\* the differences between neighbours of a column
differences(col) == [j \in 1 .. Len(col) - 1 |-> col[j + 1] - col[j]]

\* C15: the kernel keeps the plus and the minus bits disjoint: after a step
\* on a word with P & M = 0 and a carry with Ph0 & Mh0 = 0 the word has
\* P' & M' = 0 and the carry is a pair of single bits that are not both 1;
\* so every word of every computed column has P & M = 0.
C15_PlusMinusDisjoint ==
    /\ bitand(pv, mv) = 0
    /\ ph0 \in {0, 1}
    /\ mh0 \in {0, 1}
    /\ bitand(ph0, mh0) = 0

\* a step has put out a word with plus and minus bits and a carry of -1
C15_Witness ==
    /\ kernel_pc = "next"
    /\ pv # 0
    /\ mv # 0
    /\ mh0 = 1

\* C16: one step of the kernel on a word (P, M) with P & M = 0, any mask Eq
\* and a carry in {-1, 0, +1} gives the vertical differences and the
\* carry-out of the naive update of the unpacked column.
C16_KernelIsNaiveColumn ==
    [][ kernel_pc = "loaded" =>
          LET col == unpack(pv, mv, <<0>>)
              new == naive_column(col, eq, <<col[1] + unpack_h(ph0, mh0)>>)
          IN  /\ differences(unpack(pv', mv', <<0>>)) = differences(new)
              /\ unpack_h(ph0', mh0') = new[Len(new)] - col[Len(col)]
      ]_vars

\* a step with a mixed mask has put out a word with plus and minus bits and
\* a carry of 0
C16_Witness ==
    /\ kernel_pc = "next"
    /\ eq \notin {0, B_MAX}
    /\ pv # 0
    /\ mv # 0
    /\ ph0 = 0
    /\ mh0 = 0

----------------------------------------------------------------------------
(* The batch runner: main of astarpa-v2/src/bin/proof.rs.  The input reader *)
(* process_input_pairs hands the pairs to the closure one after the other   *)
(* and stops at the first ControlFlow::Break.                               *)

\* most pairs in the input
MaxPairs == 3
\* the clock stops at MaxClock
MaxClock == 3
\* largest timeout
MaxTimeout == 2

\* the closure answers Continue whatever the clock says
control_flow_continue(tmo, now) == "Continue"

\* lines 76-80: `if let Some(d) = args.timeout && start.elapsed() > d`
control_flow(tmo, now) ==
    IF tmo # None /\ now > tmo[1] THEN "Break" ELSE "Continue"

\* process_input_pairs: the next pair of the input goes to the closure
ReadPair ==
    /\ runner_pc = "read"
    /\ pairs > 0
    /\ pairs' = pairs - 1
    /\ started' = started + 1
    /\ runner_pc' = "align"
    /\ UNCHANGED <<timeout, elapsed, sample_size, engine_vars, profile_vars, kernel_vars, mutation_vars>>

\* process_input_pairs: the input is at its end
EndOfInput ==
    /\ runner_pc = "read"
    /\ pairs = 0
    /\ runner_pc' = "summary"
    /\ UNCHANGED <<timeout, elapsed, pairs, started, sample_size, engine_vars,
                   profile_vars, kernel_vars, mutation_vars>>

\* lines 56-62: align_with_stats runs to its end, however long it takes
Align ==
    /\ runner_pc = "align"
    /\ \E later \in elapsed .. MaxClock : elapsed' = later
    /\ runner_pc' = "record"
    /\ UNCHANGED <<timeout, pairs, started, sample_size, engine_vars, profile_vars,
                   kernel_vars, mutation_vars>>

\* lines 64-74: `avg_result += r`
Record ==
    /\ runner_pc = "record"
    /\ sample_size' = sample_size + 1
    /\ runner_pc' = "check"
    /\ UNCHANGED <<timeout, elapsed, pairs, started, engine_vars, profile_vars,
                   kernel_vars, mutation_vars>>

\* lines 76-80: the answer of the closure, and what the reader does with it
CheckTimeout ==
    /\ runner_pc = "check"
    /\ runner_pc' = IF control_flow(timeout, elapsed) = "Break" THEN "summary" ELSE "read"
    /\ UNCHANGED <<timeout, elapsed, pairs, started, sample_size, engine_vars,
                   profile_vars, kernel_vars, mutation_vars>>

\* lines 83-100: the summary line
Summary ==
    /\ runner_pc = "summary"
    /\ runner_pc' = "exit"
    /\ UNCHANGED <<timeout, elapsed, pairs, started, sample_size, engine_vars,
                   profile_vars, kernel_vars, mutation_vars>>

\* time passes, wherever the runner is
Tick ==
    /\ runner_pc \notin {"rest", "exit"}
    /\ elapsed < MaxClock
    /\ elapsed' = elapsed + 1
    /\ UNCHANGED <<timeout, pairs, started, sample_size, runner_pc, engine_vars,
                   profile_vars, kernel_vars, mutation_vars>>

\* lines 47-51: the arguments are parsed, the clock is started
InitRunner ==
    /\ timeout \in {None} \cup { <<d>> : d \in 0 .. MaxTimeout }
    /\ pairs \in 0 .. MaxPairs
    /\ elapsed = 0
    /\ started = 0
    /\ sample_size = 0
    /\ runner_pc = "read"
    /\ engine_rest /\ profile_rest /\ kernel_rest /\ mutation_rest

NextRunner == ReadPair \/ EndOfInput \/ Align \/ Record \/ CheckTimeout \/ Summary \/ Tick

SpecRunner == InitRunner /\ [][NextRunner]_vars

\* the closure has found the timeout passed
timed_out == timeout # None /\ elapsed > timeout[1]

\* C17: the timeout never interrupts a pair: a pair handed to the closure is
\* aligned and recorded before the clock is looked at, so every started
\* pair is recorded and the first pair of a non-empty input always is; and
\* once a check has found elapsed > timeout no further pair is started.
C17_TimeoutAtPairBoundaries ==
    /\ [](runner_pc \in {"align", "record"} => sample_size = started - 1)
    /\ [](runner_pc \in {"read", "check", "summary", "exit"} => sample_size = started)
    /\ [](runner_pc \in {"summary", "exit"} /\ pairs + started > 0 => sample_size >= 1)
    /\ [][ runner_pc = "align" => runner_pc' \in {"align", "record"} ]_vars
    /\ [][ runner_pc = "record" => runner_pc' \in {"record", "check"} ]_vars
    /\ [][ (runner_pc = "check" /\ timed_out) \/ runner_pc \in {"summary", "exit"}
             => started' = started /\ runner_pc' \notin {"read", "align"} ]_vars

\* with a timeout of 0 the first pair was recorded, then the runner stopped
\* with pairs left in the input
C17_Witness ==
    /\ runner_pc = "summary"
    /\ timeout = <<0>>
    /\ sample_size = 1
    /\ pairs > 0

----------------------------------------------------------------------------
(* The ranges of the domains without a heuristic                            *)

\* the ranges a block store can hold for a block, and none
old_ranges ==
    {None} \cup { JRange(lo, hi) : lo \in 0 .. Len(b), hi \in 0 .. Len(b) + 1 }

\* C18: j_range returns exactly [0, |B|] when f_max is absent, in every
\* domain, and when the domain is Full, with every f_max; whatever block
\* came before and whatever range is stored for the block.
C18_FullRangeWithoutBound ==
    (F_max = None \/ domain = "Full") =>
        /\ pc = "start" =>
              \A old \in old_ranges :
                  j_range(contours, first_col, F_max, first_prev, old) = JRange(0, Len(b))
        /\ pc = "col" =>
              \A old \in old_ranges :
                  j_range(contours, cur_i_range, F_max, cur_prev, old) = JRange(0, Len(b))

\* a second call in the Full domain with the bound 0 and a stored range
C18_Witness ==
    /\ pc = "col"
    /\ domain = "Full"
    /\ driver = "bounded_call"
    /\ s = 0
    /\ Len(tried) = 2
    /\ Len(b) = 3
    /\ cur_old_range # None
    /\ cur_j_range = JRange(0, Len(b))

\* the least cost of a path from the start to the end through (col, j),
\* as the domain bounds it
band_lower_bound(col, j) ==
    IF domain = "GapStart" THEN Abs(j - col)
    ELSE Abs(j - col) + Abs((Len(b) - j) - (Len(a) - col))

\* the range rg holds every row of the columns after is up to ie whose
\* bound is within fm
band_sound(rg, is, ie, fm) ==
    \A col \in is + 1 .. ie, j \in 0 .. Len(b) :
        band_lower_bound(col, j) <= fm => (rg[1] <= j /\ j <= rg[2])

\* C19: in the domains GapStart and GapGap the range of a block holds
\* every row j in [0, |B|] of every column i of the block with
\* |j - i| <= f_max (GapStart), |j - i| + |(|B| - j) - (|A| - i)| <= f_max
\* (GapGap), whatever range is stored for the block.
C19_BandIsSound ==
    (domain \in {"GapStart", "GapGap"} /\ F_max # None) =>
        /\ pc = "start" =>
              \A old \in old_ranges :
                  band_sound(j_range(contours, first_col, F_max, first_prev, old),
                             first_col[1], first_col[2], s)
        /\ pc = "col" =>
              \A old \in old_ranges :
                  band_sound(j_range(contours, cur_i_range, F_max, cur_prev, old),
                             cur_i_range[1], cur_i_range[2], s)

\* a block of the GapGap domain whose range is a band narrower than the
\* column, under a bound that allows an extra diagonal
C19_Witness ==
    /\ pc = "col"
    /\ domain = "GapGap"
    /\ s - Abs(Len(b) - Len(a)) >= 2
    /\ ~is_empty(cur_j_range)
    /\ cur_j_range # JRange(0, Len(b))

----------------------------------------------------------------------------
(* A call that cannot start                                                 *)

\* the matches that are not pruned: in the contours and not waiting to be
\* taken out of them
live_matches(M, P) == M \ P

\* the range rg holds row 0
holds_row_0(rg) == ~is_empty(rg) /\ rg[1] <= 0 /\ 0 <= rg[2]

\* C20: when the range computed for column 0 is empty or does not hold
\* row 0, the call returns None before the block store is initialised: the
\* store is as it was (no block pushed, no fixed range set) and no match is
\* pruned in the call.
C20_NoStartLeavesStoreAlone ==
    [][ pc = "start" =>
          LET initial_j_range == j_range(contours', first_col, F_max, first_prev,
                                         next_block_j_range(blocks, 0))
          IN  ~holds_row_0(initial_j_range) =>
                 /\ pc' = "returned"
                 /\ ret' = ret_none
                 /\ blocks' = blocks
                 /\ last' = 0
                 /\ live_matches(matches', pending') = live_matches(matches, pending)
                 /\ pending' \subseteq pending
      ]_vars

\* a call has returned None on a range for column 0 that is not empty and
\* starts below row 0; the store is empty
C20_Witness ==
    /\ pc = "returned"
    /\ ~ret.some
    /\ blocks = <<>>
    /\ LET initial_j_range == j_range(contours, first_col, F_max, first_prev,
                                      next_block_j_range(blocks, 0))
       IN  ~is_empty(initial_j_range) /\ initial_j_range[1] > 0

----------------------------------------------------------------------------
(* The loop over the blocks                                                 *)

\* C21: in the loop over the blocks the call returns None as soon as the
\* range computed for a block is empty, before the block is computed or
\* reused, or the fixed range computed for the block just appended is
\* empty, before that fixed range is stored and before any pruning for the
\* block; no later block is processed in the call.
C21_EmptyRangeEndsCall ==
    /\ [][ (pc = "col" /\ ~j_range_panics) =>
             LET jr == cur_j_range
                 blk == next_block(jr)
                 fixed == cur_fixed_j_range(blk)
             IN  /\ is_empty(jr) =>
                       /\ pc' = "returned"
                       /\ ret' = ret_none
                       /\ blocks' = blocks
                       /\ last' = last
                       /\ pending' = pending
                       /\ i' = i
                 /\ (~is_empty(jr) /\ fixed # None /\ is_empty(fixed)) =>
                       /\ pc' = "returned"
                       /\ ret' = ret_none
                       /\ blocks' = put_block(blocks, last + 1, blk)
                       /\ last' = last + 1
                       /\ pending' = pending
                       /\ i' = i
       ]_vars
    /\ [][ pc = "returned" => pc' \in {"returned", "done", "start"} ]_vars

\* a call has returned None on the empty fixed range of a block after the
\* first, which is in the store without a new fixed range
C21_Witness ==
    /\ pc = "returned"
    /\ ~ret.some
    /\ last >= 2
    /\ LET fixed == fixed_j_range(contours, blocks[last].i_range[2], F_max, blocks[last])
       IN  /\ fixed # None
           /\ is_empty(fixed)
           /\ blocks[last].fixed_j_range # fixed

\* C22: within one call a block is reused exactly when its range equals
\* the range stored for it and every earlier block of the call was reused;
\* otherwise it is computed anew.  So the reused blocks form a prefix: after
\* one block was computed, every later block of the call is computed, also
\* when its range equals the stored one.
C22_ReusedBlocksFormPrefix ==
    /\ [][ (pc = "col" /\ last' = last + 1) =>
             LET same == (cur_old_range = cur_j_range)
             IN  /\ all_blocks_reused' = (all_blocks_reused /\ same)
                 /\ (all_blocks_reused /\ same) =>
                       blocks'[last + 1].cols = blocks[last + 1].cols
                 /\ ~(all_blocks_reused /\ same) =>
                       blocks'[last + 1].cols =
                           compute_block(a, b, cur_prev, cur_i_range, cur_j_range).cols
       ]_vars
    /\ [][ (pc = "col" /\ ~all_blocks_reused) => ~all_blocks_reused' ]_vars

\* in a later call a block was computed anew, and the range of the next
\* block equals the one stored for it: that block will be computed anew
C22_Witness ==
    /\ pc = "col"
    /\ Len(tried) >= 2
    /\ ~all_blocks_reused
    /\ cur_old_range # None
    /\ cur_old_range = cur_j_range

----------------------------------------------------------------------------
(* Pruning                                                                  *)

\* the matches of M that start in the columns is .. ie - 1 and in the rows
\* lo .. hi - 1, as the ranges `is..ie` and `lo..hi` hold them
starting_in(M, is, ie, lo, hi) ==
    { m \in M : /\ is <= match_start(m, k)[1] /\ match_start(m, k)[1] < ie
                /\ lo <= match_start(m, k)[2] /\ match_start(m, k)[2] < hi }

\* row j lies in the range rg
in_range(rg, j) == rg[1] <= j /\ j <= rg[2]

C24_PrunesFlushedAtStart ==
    /\ [](domain = "Astar" => contours = build_contours(matches, a, b, k, r))
    /\ [][ pc = "start" =>
             IF prune /\ domain = "Astar"
             THEN /\ matches' = matches \ pending
                  /\ pending' = {}
             ELSE /\ matches' = matches
                  /\ pending' = pending
                  /\ contours' = contours
       ]_vars
    /\ [][ pc # "start" => (matches' = matches /\ contours' = contours) ]_vars

\* a later call runs on contours without the matches pruned before it, and
\* has pruned matches that are still in the contours
C24_Witness ==
    /\ pc = "col"
    /\ Len(tried) >= 2
    /\ matches # find_matches(a, b, k, r)
    /\ pending # {}
    /\ contours = build_contours(matches, a, b, k, r)
    /\ contours # build_contours(matches \ pending, a, b, k, r)

\* ---------------------------------------------------------------------------
\* mutations (src/util.rs): the k-mers one edit away from a k-mer
\* ---------------------------------------------------------------------------

\* the longest k-mer of the model
MaxKmerLen == 3

\* the width of a usize of the model (64 in the build)
UsizeBits == 12

\* `!x` on a usize
usize_not(x) == 2^UsizeBits - 1 - x

\* the vector `from, from + 1, .., to` of a loop `for pos in from..=to`
inclusive_range(from, to) == [n \in 1..Max(to - from + 1, 0) |-> from + n - 1]

\* the four bases pushed for position pos of the substitution loop
substitution(km, pos, base) ==
    LET mask == usize_not(shl(3, 2 * pos, UsizeBits))
    IN  bitor(bitand(km, mask), shl(base, 2 * pos, UsizeBits))

substitutions_of(kk, km) ==
    [n \in 1..(4 * kk) |-> substitution(km, (n - 1) \div 4, (n - 1) % 4)]

insertion(km, pos, base) ==
    LET mask == shl(1, 2 * pos, UsizeBits) - 1
    IN  bitor(bitor(bitand(km, mask), shl(base, 2 * pos, UsizeBits)),
              shl(bitand(km, usize_not(mask)), 2, UsizeBits))

insertions_of(kk, km, cfg) ==
    LET at == inclusive_range(IF cfg.insert_at_start THEN 0 ELSE 1,
                              IF cfg.insert_at_end THEN kk ELSE kk - 1)
    IN  [n \in 1..(4 * Len(at)) |-> insertion(km, at[((n - 1) \div 4) + 1], (n - 1) % 4)]

deletion(km, pos) ==
    LET mask == shl(1, 2 * pos, UsizeBits) - 1
    IN  bitor(bitand(km, mask),
              bitand(km, shl(usize_not(mask), 2, UsizeBits)) \div 4)

deletions_of(kk, km, cfg) ==
    LET at == inclusive_range(IF cfg.delete_at_start THEN 0 ELSE 1,
                              IF cfg.delete_at_end THEN kk - 1 ELSE kk - 2)
    IN  [n \in 1..Len(at) |-> deletion(km, at[n])]

\* `v.sort_unstable()`
RECURSIVE sort_unstable(_)
sort_unstable(v) ==
    IF Len(v) <= 1 THEN v
    ELSE LET rest == sort_unstable(Tail(v))
             below == SelectSeq(rest, LAMBDA x : x < Head(v))
             above == SelectSeq(rest, LAMBDA x : x >= Head(v))
         IN  below \o <<Head(v)>> \o above

\* `v.dedup()`: drops every element equal to the one before it
RECURSIVE dedup(_)
dedup(v) ==
    IF Len(v) <= 1 THEN v
    ELSE LET front == dedup(SubSeq(v, 1, Len(v) - 1))
         IN  IF v[Len(v)] = v[Len(v) - 1] THEN front ELSE Append(front, v[Len(v)])

retain_all(v, x) == v

\* `v.retain(|&y| y != x)`
retain(v, x) == SelectSeq(v, LAMBDA y : y # x)

mutations(kk, km, cfg, dd) ==
    LET subs == substitutions_of(kk, km)
        ins == insertions_of(kk, km, cfg)
        dels == deletions_of(kk, km, cfg)
    IN  IF dd
        THEN [deletions |-> dedup(sort_unstable(dels)),
              substitutions |-> retain(dedup(sort_unstable(subs)), km),
              insertions |-> dedup(sort_unstable(ins))]
        ELSE [deletions |-> dels, substitutions |-> subs, insertions |-> ins]

MutationConfigs ==
    [insert_at_start : BOOLEAN, insert_at_end : BOOLEAN,
     delete_at_start : BOOLEAN, delete_at_end : BOOLEAN]

CallMutations ==
    /\ mut_pc = "call"
    /\ mut_result' = mutations(mut_k, kmer, mut_config, mut_dedup)
    /\ mut_pc' = "done"
    /\ UNCHANGED <<mut_k, kmer, mut_config, mut_dedup, engine_vars, profile_vars, kernel_vars, runner_vars>>

InitMutations ==
    /\ mut_k \in 0..MaxKmerLen
    /\ kmer \in 0..(4^(mut_k + 1) - 1)
    /\ mut_config \in MutationConfigs
    /\ mut_dedup \in BOOLEAN
    /\ mut_result = <<>>
    /\ mut_pc = "call"
    /\ engine_rest /\ profile_rest /\ kernel_rest /\ runner_rest

NextMutations == CallMutations

SpecMutations == InitMutations /\ [][NextMutations]_vars

strictly_increasing(v) == \A n \in 1..(Len(v) - 1) : v[n] < v[n + 1]

elements(v) == {v[n] : n \in 1..Len(v)}

\* the base of k-mer x at position pos
base_at(x, pos) == (x \div 4^pos) % 4

\* the k-mers that differ from km in the base of exactly one of the positions 0..kk-1
one_base_variants(kk, km) ==
    {km + (c - base_at(km, pos)) * 4^pos : <<pos, c>> \in
        {ic \in (0..(kk - 1)) \X (0..3) : ic[2] # base_at(km, ic[1])}}

\* C25: with dedup, the substitutions of a k-mer below 4^k are exactly its 3k
\* one-base variants, strictly increasing and without the k-mer itself, and the
\* deletions and the insertions are strictly increasing too.
C25_SubstitutionsAreOneBaseVariants ==
    (mut_pc = "done" /\ mut_dedup /\ kmer < 4^mut_k) =>
        /\ elements(mut_result.substitutions) = one_base_variants(mut_k, kmer)
        /\ Len(mut_result.substitutions) = 3 * mut_k
        /\ strictly_increasing(mut_result.substitutions)
        /\ kmer \notin elements(mut_result.substitutions)
        /\ strictly_increasing(mut_result.deletions)
        /\ strictly_increasing(mut_result.insertions)

\* the k-mer 0b011011 with k = 3: its deletions and insertions hold the k-mer
C25_Witness ==
    /\ mut_pc = "done" /\ mut_dedup /\ mut_k = 3 /\ kmer = 27
    /\ mut_config = [insert_at_start |-> TRUE, insert_at_end |-> TRUE,
                     delete_at_start |-> TRUE, delete_at_end |-> TRUE]
    /\ Len(mut_result.substitutions) = 9
    /\ Len(sort_unstable(substitutions_of(mut_k, kmer))) = 12
    /\ kmer \in elements(mut_result.insertions)

\* ---------------------------------------------------------------------------
\* The positions at which j_range and fixed_j_range evaluate the heuristic
\* ---------------------------------------------------------------------------

\* sparse_h off, inner loop: the positions at which f is evaluated
RECURSIVE extend_down_h_calls(_, _, _, _, _, _)
extend_down_h_calls(C, u, gu, f_max, vi, vj) ==
    IF vj <= Len(b)
    THEN {<<vi, vj>>} \cup
         (IF f_from(C, u, gu, <<vi, vj>>) <= f_max
          THEN extend_down_h_calls(C, u, gu, f_max, vi, vj + 1) ELSE {})
    ELSE {}

\* sparse_h off: the positions at which f is evaluated
RECURSIVE dense_h_calls(_, _, _, _, _, _)
dense_h_calls(C, u, gu, f_max, ie, v) ==
    IF v[1] < ie
    THEN extend_down_h_calls(C, u, gu, f_max, v[1] + 1, v[2] + 2) \cup
         dense_h_calls(C, u, gu, f_max, ie,
                       <<v[1] + 1, extend_down(C, u, gu, f_max, v[1] + 1, v[2] + 2) - 1>>)
    ELSE {}

\* sparse_h on, first loop: the positions at which f is evaluated
RECURSIVE sparse_right_down_h_calls(_, _, _, _, _, _)
sparse_right_down_h_calls(C, u, gu, f_max, ie, v) ==
    IF v[1] <= ie /\ v[2] < Len(b)
    THEN LET fv == f_from(C, u, gu, v)
         IN  {v} \cup
             (IF fv <= f_max
              THEN sparse_right_down_h_calls(C, u, gu, f_max, ie, <<v[1], v[2] + SparseStep>>)
              ELSE sparse_right_down_h_calls(C, u, gu, f_max, ie,
                      <<v[1] + sparse_jump(fv, f_max, min_del_extend), v[2]>>))
    ELSE {}

\* the second loop without the stop at the diagonal of u
RECURSIVE sparse_up_h_calls_unstopped(_, _, _, _, _)
sparse_up_h_calls_unstopped(C, u, gu, f_max, v) ==
    IF v[2] < 0 \/ v[2] = Len(b) THEN {}
    ELSE LET fv == f_from(C, u, gu, v)
         IN  {v} \cup
             (IF fv <= f_max THEN {}
              ELSE sparse_up_h_calls_unstopped(C, u, gu, f_max,
                      <<v[1], v[2] - sparse_jump(fv, f_max, min_ins_extend)>>))

\* sparse_h on, second loop: the positions at which f is evaluated
RECURSIVE sparse_up_h_calls(_, _, _, _, _)
sparse_up_h_calls(C, u, gu, f_max, v) ==
    IF v[2] < 0 \/ v[2] = Len(b) THEN {}
    ELSE LET fv == f_from(C, u, gu, v)
         IN  {v} \cup
             (IF fv <= f_max THEN {}
              ELSE LET vj == v[2] - sparse_jump(fv, f_max, min_ins_extend)
                   IN  IF above_diagonal(u, v[1], vj) THEN {}
                       ELSE sparse_up_h_calls(C, u, gu, f_max, <<v[1], vj>>))

\* `let u = Pos(is, fixed_end)`, fixed_end after the union with old_range
anchor(i_range, prev, old_range) ==
    <<i_range[1],
      IF old_range # None THEN Max(prev.fixed_j_range[2], old_range[2])
      ELSE prev.fixed_j_range[2]>>

\* the positions passed to f (and so to h) by one call of j_range
j_range_h_calls(C, i_range, f_max, prev, old_range) ==
    IF f_max = None \/ domain # "Astar" THEN {}
    ELSE LET u == anchor(i_range, prev, old_range)
             gu == IF i_range[1] < 0 THEN 0 ELSE index(prev, u[2])
             ie == i_range[2]
         IN  IF ~sparse_h
             THEN dense_h_calls(C, u, gu, f_max[1], ie, u)
             ELSE LET v0 == <<u[1] + 1, Min(u[2] + 1 + block_width + SparseStep, Len(b))>>
                      v1 == sparse_right_down(C, u, gu, f_max[1], ie, v0)
                  IN  sparse_right_down_h_calls(C, u, gu, f_max[1], ie, v0) \cup
                      sparse_up_h_calls(C, u, gu, f_max[1], <<ie, v1[2]>>)

\* the rows at which the first scan of fixed_j_range evaluates f
RECURSIVE fixed_start_h_calls(_, _, _, _, _, _)
fixed_start_h_calls(C, col_i, f_max, blk, start, end) ==
    IF start <= end
    THEN LET fv == f_fixed(C, col_i, blk, start)
         IN  {<<col_i, start>>} \cup
             (IF fv <= f_max THEN {}
              ELSE fixed_start_h_calls(C, col_i, f_max, blk, start + fixed_step(fv, f_max), end))
    ELSE {}

\* the rows at which the second scan of fixed_j_range evaluates f
RECURSIVE fixed_end_h_calls(_, _, _, _, _, _)
fixed_end_h_calls(C, col_i, f_max, blk, start, end) ==
    IF end >= start
    THEN LET fv == f_fixed(C, col_i, blk, end)
         IN  {<<col_i, end>>} \cup
             (IF fv <= f_max THEN {}
              ELSE fixed_end_h_calls(C, col_i, f_max, blk, start, end - fixed_step(fv, f_max)))
    ELSE {}

\* the positions passed to h by one call of fixed_j_range
fixed_j_range_h_calls(C, col_i, f_max, blk) ==
    IF domain # "Astar" \/ f_max = None THEN {}
    ELSE LET start == fixed_start_scan(C, col_i, f_max[1], blk, blk.j_range[1], blk.j_range[2])
         IN  fixed_start_h_calls(C, col_i, f_max[1], blk, blk.j_range[1], blk.j_range[2]) \cup
             fixed_end_h_calls(C, col_i, f_max[1], blk, start, blk.j_range[2])

\* the contours under which the range of column 0 is computed
start_contours ==
    IF heuristic_pruned /\ pending # {}
    THEN build_contours(flushed_matches, a, b, k, r) ELSE contours

\* the j_range call the engine makes next: its anchor and its h calls
next_j_range_call ==
    CASE domain # "Astar" \/ F_max = None -> [u |-> <<0, 0>>, h_calls |-> {}]
      [] pc = "start" ->
           [u |-> anchor(first_col, first_prev, next_block_j_range(blocks, 0)),
            h_calls |-> j_range_h_calls(start_contours, first_col, F_max, first_prev,
                                        next_block_j_range(blocks, 0))]
      [] pc = "col" /\ ~j_range_panics ->
           [u |-> anchor(cur_i_range, cur_prev, cur_old_range),
            h_calls |-> j_range_h_calls(contours, cur_i_range, F_max, cur_prev, cur_old_range)]
      [] OTHER -> [u |-> <<0, 0>>, h_calls |-> {}]

\* `v.1 - u.1 >= v.0 - u.0`
on_or_below_diagonal(u, v) == v[2] - u[2] >= v[1] - u[1]

\* C26: wherever j_range evaluates f, the position is on or below the diagonal
\* of the anchor u: the assertion of the closure f holds at every call, with
\* sparse_h on and off, for the first column and after pruning.
C26_BoundEvaluatedBelowDiagonal ==
    \A v \in next_j_range_call.h_calls : on_or_below_diagonal(next_j_range_call.u, v)

\* the sparse search of the first column, u in column -1, under the contours
\* left by the prunes of the attempt before: f is evaluated at several rows
C26_Witness ==
    /\ pc = "start" /\ sparse_h /\ heuristic_pruned /\ pending # {}
    /\ next_j_range_call.u[1] = -1
    /\ Cardinality(next_j_range_call.h_calls) >= 2

\* Far inputs: pairs far apart by content (the long text against one letter
\* repeated) or by length (a short prefix of the long text against the whole),
\* so that the bound of an attempt exceeds the rows of a sparse step.
far_text == [n \in 1 .. LongLen |-> 1]

FarPairs ==
    {<<long_text, far_text>>} \cup {<<SubSeq(long_text, 1, n), long_text>> : n \in 1 .. MaxLen}

InitFar ==
    \E p \in FarPairs, c \in LongConfigs, bw \in {1, LongBlockWidth} :
        Setup(p[1], p[2], c[1], c[2], c[3], bw, FALSE, c[4], c[5],
              "exponential_search", initial_bound(p[1], p[2]))

SpecFar == InitFar /\ [][Next]_vars

\* the h calls of the fixed_j_range call the engine makes next
next_fixed_j_range_h_calls ==
    IF pc = "col" /\ ~j_range_panics /\ ~is_empty(cur_j_range)
    THEN fixed_j_range_h_calls(contours, cur_i_range[2], F_max, next_block(cur_j_range))
    ELSE {}

\* Pos(i, j) is a state of the grid
in_grid(v) == 0 <= v[1] /\ v[1] <= Len(a) /\ 0 <= v[2] /\ v[2] <= Len(b)

\* C27: every position at which j_range and fixed_j_range evaluate the
\* heuristic lies inside the grid, 0 <= i <= |A| and 0 <= j <= |B|, with
\* sparse_h on and off.
C27_HeuristicQueriedInsideGrid ==
    \A v \in next_j_range_call.h_calls \cup next_fixed_j_range_h_calls : in_grid(v)

\* line 390: `assert!(blocks.next_block_j_range().is_none())` fails
stored_range_assert_fails == is_empty(cur_j_range) /\ cur_old_range # None

\* C28: the assertions of the driver and of j_range hold before every block:
\* in the A* domain with a bound the fixed range of the previous block is set
\* and not empty, and a block whose range comes out empty has no range stored
\* by an earlier call.
C28_DriverChecksHold ==
    pc = "col" => (~j_range_panics /\ ~stored_range_assert_fails)

\* the second call on a store finds the range of a block empty
C28_Witness ==
    /\ pc = "col" /\ is_empty(cur_j_range) /\ cur_old_range = None
    /\ Len(tried) = 2

\* C29: a call without a bound runs to completion in every domain and with
\* every pruning setting: it never aborts, every block it computes covers the
\* rows [0, |B|], and it returns the distance D(|A|, |B|).
C29_UnboundedCallCompletes ==
    driver = "unbounded_call" =>
        /\ pc # "panic"
        /\ \A n \in 1 .. last : blocks[n].j_range = JRange(0, Len(b))
        /\ pc = "returned" => ret.some /\ ret.cost = dist

\* the block whose fixed range the engine computes next
scans_next == pc = "col" /\ ~j_range_panics /\ ~is_empty(cur_j_range) /\ F_max # None
                 /\ domain = "Astar"

\* the rows of the block with f <= f_max
rows_within(C, col_i, f_max, blk) ==
    {j \in blk.j_range[1] .. blk.j_range[2] : f_fixed(C, col_i, blk, j) <= f_max}

\* f changes by at most 2 between adjacent rows of the block
changes_by_at_most_2(C, col_i, blk) ==
    \A j \in blk.j_range[1] .. (blk.j_range[2] - 1) :
        Abs(f_fixed(C, col_i, blk, j + 1) - f_fixed(C, col_i, blk, j)) <= 2

\* the range is the first and the last of the rows, or empty when there is none
first_to_last(range, rows) ==
    IF rows = {} THEN is_empty(range)
    ELSE /\ range[1] \in rows /\ range[2] \in rows
         /\ \A j \in rows : range[1] <= j /\ j <= range[2]

\* C30: where f changes by at most 2 between adjacent rows of a block, the
\* scans of fixed_j_range, with sparse_h on (jumps of ceil((f - f_max) / 2)) as
\* with sparse_h off (steps of 1), end and return the first and the last row
\* of the block's range with f <= f_max, or an empty range when there is none.
C30_SparseScanFindsFixedRows ==
    (scans_next /\ changes_by_at_most_2(contours, cur_i_range[2], next_block(cur_j_range))) =>
        first_to_last(cur_fixed_j_range(next_block(cur_j_range)),
                      rows_within(contours, cur_i_range[2], s, next_block(cur_j_range)))

\* a sparse scan that skips rows at both ends of the block
C30_Witness ==
    /\ scans_next /\ sparse_h
    /\ changes_by_at_most_2(contours, cur_i_range[2], next_block(cur_j_range))
    /\ LET blk == next_block(cur_j_range)
           fixed == cur_fixed_j_range(blk)
       IN  /\ ~is_empty(fixed)
           /\ fixed[1] >= blk.j_range[1] + 2
           /\ fixed[2] <= blk.j_range[2] - 2
           /\ Cardinality(fixed_j_range_h_calls(contours, cur_i_range[2], F_max, blk))
                < (fixed[1] - blk.j_range[1]) + (blk.j_range[2] - fixed[2]) + 2

====
